---- MODULE Spec2Model ----
(***************************************************************************)
(* A model of the anchor_normalizer crate of stylusport: normalize()       *)
(* (normalization/program.rs) run stage by stage on a parsed Program, with *)
(* the inference passes (normalization/inference.rs) and the validator     *)
(* (normalization/validation.rs); and of the anchor_parser crate's         *)
(* conversion of a syntax tree into that Program (parser/convert.rs,       *)
(* parser/predicates.rs).                                                  *)
(*                                                                         *)
(* Strings of the program are TLA+ strings.  The two kinds of text the     *)
(* code looks inside are sequences of tokens: a source path is a sequence  *)
(* of one-character strings, a type text is a sequence of lexical tokens   *)
(* ("Context", "<", "Initialize", ">").  Str renders a token sequence as   *)
(* the string it stands for.  Option<T> is a sequence of length 0 or 1.    *)
(***************************************************************************)
EXTENDS Integers, Sequences, FiniteSets, TLC

VARIABLES
    file,        \* Option<syn::File>: the syntax tree parse_str converts, if any
    program,     \* the parsed Program handed to normalize (read-only input)
    pc,          \* position inside normalize_program
    call,        \* which call of normalize on this input is running (1 or 2)
    name,        \* Option<String>: the local `name` of normalize_program
    normalized,  \* Option<NormalizedProgram>: the local `normalized` / the Ok value
    error,       \* Option<NormalizationError>: the Err value
    reruns,      \* how often infer_missing_semantics was re-applied to the result
    first        \* outcome of call 1, kept to compare with call 2

vars == <<file, program, pc, call, name, normalized, error, reruns, first>>

-----------------------------------------------------------------------------
(* Bounds of the model *)

MaxPathLen == 3
MaxModules == 2
MaxAccounts == 2
MaxFields == 2
MaxReInfer == 2
MaxParams == 2
MaxPieces == 3

-----------------------------------------------------------------------------
(* Option, sequences, strings *)

None == <<>>
Some(x) == <<x>>
IsSome(o) == o # <<>>
IsNone(o) == o = <<>>
Unwrap(o) == o[1]

Range(s) == {s[i] : i \in 1..Len(s)}

\* Sequences over S of length at most n
SeqsUpTo(S, n) == UNION {[1..k -> S] : k \in 0..n}

\* Position of the first / last element of s satisfying Test, 0 when none
FirstIndex(s, Test(_)) ==
    IF \E i \in 1..Len(s) : Test(s[i])
    THEN CHOOSE i \in 1..Len(s) : Test(s[i]) /\ \A j \in 1..(i - 1) : ~Test(s[j])
    ELSE 0
LastIndex(s, Test(_)) ==
    IF \E i \in 1..Len(s) : Test(s[i])
    THEN CHOOSE i \in 1..Len(s) : Test(s[i]) /\ \A j \in (i + 1)..Len(s) : ~Test(s[j])
    ELSE 0

\* Iterator::any, Iterator::find (as an Option)
AnyOf(s, Test(_)) == \E i \in 1..Len(s) : Test(s[i])
Find(s, Test(_)) == IF AnyOf(s, Test) THEN Some(s[FirstIndex(s, Test)]) ELSE None

\* The string a token sequence stands for
RECURSIVE Str(_)
Str(toks) == IF toks = <<>> THEN "" ELSE Head(toks) \o Str(Tail(toks))

\* str::trim on a token sequence: leading and trailing blanks dropped
IsBlank(t) == t = " "
NotBlank(t) == t # " "
Trim(toks) ==
    IF ~AnyOf(toks, NotBlank) THEN <<>>
    ELSE SubSeq(toks, FirstIndex(toks, NotBlank), LastIndex(toks, NotBlank))

-----------------------------------------------------------------------------
(* std::path::Path::file_stem on a Unix path, as extract_program_name uses *)
(* it.  A path is a sequence of characters.                                *)

IsSlash(c) == c = "/"
IsDot(c) == c = "."

\* The path cut at its slashes: the pieces between them, empty ones included
RECURSIVE SplitAtSlash(_)
SplitAtSlash(path) ==
    LET i == FirstIndex(path, IsSlash) IN
    IF i = 0 THEN <<path>>
    ELSE <<SubSeq(path, 1, i - 1)>> \o SplitAtSlash(SubSeq(path, i + 1, Len(path)))

\* Path::file_name: the last component if it is a normal one.  Empty pieces
\* (repeated or trailing slashes) and "." pieces are no components of their
\* own at the end of a path; ".." is a component but not a normal one.
IsNormalOrParent(piece) == piece # <<>> /\ piece # <<".">>
file_name(path) ==
    LET pieces == SplitAtSlash(path)
        i == LastIndex(pieces, IsNormalOrParent)
    IN  IF i = 0 THEN None
        ELSE IF pieces[i] = <<".", ".">> THEN None
        ELSE Some(pieces[i])

\* Path::file_stem: the file name up to its last dot; the whole file name
\* when it has no dot or when nothing stands before its last dot
file_stem(path) ==
    LET fname == file_name(path) IN
    IF IsNone(fname) THEN None
    ELSE LET f == Unwrap(fname)
             d == LastIndex(f, IsDot)
         IN  IF d = 0 \/ d = 1 THEN Some(f)
             ELSE Some(SubSeq(f, 1, d - 1))

-----------------------------------------------------------------------------
(* Errors (error.rs) *)

MissingInfo(msg) == [kind |-> "MissingInfo", message |-> msg]

Ok(v) == [ok |-> TRUE, value |-> v]
Err(e) == [ok |-> FALSE, error |-> e]

-----------------------------------------------------------------------------
(* The normalized model (model/account.rs, model/instruction.rs,           *)
(* model/program.rs, model/validation.rs)                                  *)

\* Vec::push through a loop: Op(acc, s[1]), then s[2], ...
RECURSIVE FoldLeft(_, _, _)
FoldLeft(Op(_, _), acc, s) ==
    IF s = <<>> THEN acc ELSE FoldLeft(Op, Op(acc, Head(s)), Tail(s))

NormalizedConstraint(constraint_type, value, is_inferred) ==
    [constraint_type |-> constraint_type, value |-> value, is_inferred |-> is_inferred]

without_value(constraint_type, is_inferred) ==
    NormalizedConstraint(constraint_type, None, is_inferred)

NewAccountField(fname, ty) ==
    [name |-> fname, ty |-> ty, constraints |-> <<>>,
     inferred_info |-> [requires_mut |-> FALSE, requires_signer |-> FALSE,
                        is_initialized |-> FALSE, related_account |-> None]]

\* Variant: the first valued "payer" constraint keeps the related account
add_constraint_first_payer(field, constraint) ==
    LET info == field.inferred_info
        t == constraint.constraint_type
        info2 ==
            IF t = "mut" THEN [info EXCEPT !.requires_mut = TRUE]
            ELSE IF t = "signer" THEN [info EXCEPT !.requires_signer = TRUE]
            ELSE IF t = "init" THEN [info EXCEPT !.is_initialized = TRUE]
            ELSE IF t = "payer" /\ IsSome(constraint.value) /\ IsNone(info.related_account)
                 THEN [info EXCEPT !.related_account = Some(Unwrap(constraint.value))]
            ELSE info
    IN  [field EXCEPT !.inferred_info = info2,
                      !.constraints = Append(field.constraints, constraint)]

\* Variant: only a constraint copied from the source updates the derived info
add_constraint_explicit_only(field, constraint) ==
    LET info == field.inferred_info
        t == constraint.constraint_type
        info2 ==
            IF constraint.is_inferred THEN info
            ELSE IF t = "mut" THEN [info EXCEPT !.requires_mut = TRUE]
            ELSE IF t = "signer" THEN [info EXCEPT !.requires_signer = TRUE]
            ELSE IF t = "init" THEN [info EXCEPT !.is_initialized = TRUE]
            ELSE IF t = "payer" /\ IsSome(constraint.value)
                 THEN [info EXCEPT !.related_account = Some(Unwrap(constraint.value))]
            ELSE info
    IN  [field EXCEPT !.inferred_info = info2,
                      !.constraints = Append(field.constraints, constraint)]

\* Variant: the constraint is put in front of the list
add_constraint_front(field, constraint) ==
    [field EXCEPT !.constraints = <<constraint>> \o field.constraints]

\* NormalizedAccountField::add_constraint: update the derived info, then push
add_constraint(field, constraint) ==
    LET info == field.inferred_info
        t == constraint.constraint_type
        info2 ==
            IF t = "mut" THEN [info EXCEPT !.requires_mut = TRUE]
            ELSE IF t = "signer" THEN [info EXCEPT !.requires_signer = TRUE]
            ELSE IF t = "init" THEN [info EXCEPT !.is_initialized = TRUE]
            ELSE IF t = "payer" /\ IsSome(constraint.value)
                 THEN [info EXCEPT !.related_account = Some(Unwrap(constraint.value))]
            ELSE info
    IN  [field EXCEPT !.inferred_info = info2,
                      !.constraints = Append(field.constraints, constraint)]

has_constraint(field, ctype) ==
    \E i \in 1..Len(field.constraints) : field.constraints[i].constraint_type = ctype

\* NormalizedAccountField::find_constraint / iter().find(|c| c.constraint_type == ..)
find_constraint(field, ctype) ==
    Find(field.constraints, LAMBDA c : c.constraint_type = ctype)

\* NormalizedAccountStruct::find_field
find_field(account, fname) == Find(account.fields, LAMBDA f : f.name = fname)

\* NormalizedProgram::find_account_struct: the first struct of that name
find_account_struct(np, sname) ==
    Find(np.account_structs, LAMBDA a : a.name = sname)

\* NormalizedInstruction::has_context_parameter
has_context_parameter(instruction) ==
    \E i \in 1..Len(instruction.parameters) : instruction.parameters[i].is_context

Unknown == [kind |-> "Unknown", operations |-> <<>>]
Basic(operations) == [kind |-> "Basic", operations |-> operations]

Initialize(target, payer) == [op |-> "Initialize", target |-> target, payer |-> payer]
Transfer(from, to) == [op |-> "Transfer", from |-> from, to |-> to]
Close(target, refund_to) == [op |-> "Close", target |-> target, refund_to |-> refund_to]

\* NormalizedProgram::new
NewNormalizedProgram(id, pname) ==
    [id |-> id, name |-> pname, modules |-> <<>>, account_structs |-> <<>>,
     raw_accounts |-> <<>>, validation_issues |-> <<>>, source_info |-> None,
     schema_version |-> "1.0"]

\* ValidationIssue; the message is kept as the pieces format! joins
ValidationIssue(severity, message, element) ==
    [severity |-> severity, message |-> message, element |-> element]

-----------------------------------------------------------------------------
(* Structural copy (normalization/account.rs, normalization/instruction.rs, *)
(* normalize_module of normalization/program.rs)                            *)

normalize_constraint(constraint) ==
    NormalizedConstraint(constraint.constraint_type, constraint.value, FALSE)

normalize_account_field(field) ==
    FoldLeft(LAMBDA acc, c : add_constraint(acc, normalize_constraint(c)),
             NewAccountField(field.name, field.ty), field.constraints)

normalize_account_struct(account) ==
    [name |-> account.name, visibility |-> account.visibility,
     fields |-> FoldLeft(LAMBDA acc, f : Append(acc, normalize_account_field(f)),
                         <<>>, account.fields)]

normalize_raw_field(field) ==
    [name |-> field.name, ty |-> field.ty, visibility |-> field.visibility]

normalize_raw_account(account) ==
    [name |-> account.name, visibility |-> account.visibility,
     fields |-> FoldLeft(LAMBDA acc, f : Append(acc, normalize_raw_field(f)),
                         <<>>, account.fields)]

normalize_parameter(param) ==
    [name |-> param.name, ty |-> param.ty, is_context |-> param.is_context]

normalize_instruction(instruction) ==
    [name |-> instruction.name, visibility |-> instruction.visibility,
     parameters |-> FoldLeft(LAMBDA acc, p : Append(acc, normalize_parameter(p)),
                             <<>>, instruction.parameters),
     return_type |-> instruction.return_type,
     account_struct_name |-> instruction.context_type,
     body |-> Some(Unknown)]

\* Variant: each instruction is put in front of those copied before it
normalize_module_front(module) ==
    [name |-> module.name, visibility |-> module.visibility,
     instructions |-> FoldLeft(LAMBDA acc, i : <<normalize_instruction(i)>> \o acc,
                               <<>>, module.instructions)]

normalize_module(module) ==
    [name |-> module.name, visibility |-> module.visibility,
     instructions |-> FoldLeft(LAMBDA acc, i : Append(acc, normalize_instruction(i)),
                               <<>>, module.instructions)]

\* The three copy loops of normalize_program
normalize_structure(np, p) ==
    [np EXCEPT
        !.modules = FoldLeft(LAMBDA acc, m : Append(acc, normalize_module(m)),
                             np.modules, p.program_modules),
        !.account_structs = FoldLeft(LAMBDA acc, a : Append(acc, normalize_account_struct(a)),
                                     np.account_structs, p.account_structs),
        !.raw_accounts = FoldLeft(LAMBDA acc, a : Append(acc, normalize_raw_account(a)),
                                  np.raw_accounts, p.raw_accounts)]

-----------------------------------------------------------------------------
(* Name and id derivation (normalization/program.rs)                       *)

\* Variant: a program without a derivable name is given the name "unknown"
extract_program_name_unknown(p) ==
    IF p.program_modules # <<>> THEN Ok(p.program_modules[1].name)
    ELSE IF IsSome(p.source_path) /\ IsSome(file_stem(Unwrap(p.source_path)))
         THEN Ok(Str(Unwrap(file_stem(Unwrap(p.source_path)))))
    ELSE Ok("unknown")

\* Variant: a path without a file stem is taken whole as the name
extract_program_name_whole_path(p) ==
    IF p.program_modules # <<>> THEN Ok(p.program_modules[1].name)
    ELSE IF IsSome(p.source_path)
         THEN IF IsSome(file_stem(Unwrap(p.source_path)))
              THEN Ok(Str(Unwrap(file_stem(Unwrap(p.source_path)))))
              ELSE Ok(Str(Unwrap(p.source_path)))
    ELSE Err(MissingInfo("Could not determine program name"))

\* Variant: with several modules the last one names the program
extract_program_name_last_module(p) ==
    IF p.program_modules # <<>> THEN Ok(p.program_modules[Len(p.program_modules)].name)
    ELSE IF IsSome(p.source_path) /\ IsSome(file_stem(Unwrap(p.source_path)))
         THEN Ok(Str(Unwrap(file_stem(Unwrap(p.source_path)))))
    ELSE Err(MissingInfo("Could not determine program name"))

extract_program_name(p) ==
    IF Len(p.program_modules) = 1 THEN Ok(p.program_modules[1].name)
    ELSE IF p.program_modules # <<>> THEN Ok(p.program_modules[1].name)
    ELSE IF IsSome(p.source_path) /\ IsSome(file_stem(Unwrap(p.source_path)))
         THEN Ok(Str(Unwrap(file_stem(Unwrap(p.source_path)))))
    ELSE Err(MissingInfo("Could not determine program name"))

\* Variant: without a source path the id is always taken from the clock
generate_program_id_clock(p, now) ==
    IF IsSome(p.source_path) THEN "program:" \o Str(Unwrap(p.source_path))
    ELSE "program:" \o ToString(now)

\* Variant: a declared module takes precedence over the source path
generate_program_id_module_first(p, now) ==
    IF p.program_modules # <<>> THEN "program:" \o p.program_modules[1].name
    ELSE IF IsSome(p.source_path) THEN "program:" \o Str(Unwrap(p.source_path))
    ELSE "program:" \o ToString(now)

\* now: what chrono::Utc::now().timestamp() returns at the call
generate_program_id(p, now) ==
    IF IsSome(p.source_path) THEN "program:" \o Str(Unwrap(p.source_path))
    ELSE IF p.program_modules # <<>> THEN "program:" \o p.program_modules[1].name
    ELSE "program:" \o ToString(now)

-----------------------------------------------------------------------------
(* Linking (normalization/program.rs)                                      *)

IsLt(t) == t = "<"
IsGt(t) == t = ">"

\* extract_context_type: the text between the first '<' and the last '>',
\* trimmed; nothing when either is missing or no text lies between them
extract_context_type(ty) ==
    LET lt == FirstIndex(ty, IsLt)
        gt == LastIndex(ty, IsGt)
    IN  IF lt = 0 \/ gt = 0 THEN None
        ELSE IF lt + 1 < gt THEN Some(Str(Trim(SubSeq(ty, lt + 1, gt - 1))))
        ELSE None

\* The body of the loop over one instruction
link_instruction(instruction) ==
    IF IsSome(instruction.account_struct_name) THEN instruction
    ELSE FoldLeft(LAMBDA acc, param :
                      IF param.is_context /\ IsSome(extract_context_type(param.ty))
                      THEN [acc EXCEPT !.account_struct_name = extract_context_type(param.ty)]
                      ELSE acc,
                  instruction, instruction.parameters)

link_instructions_to_accounts(np) ==
    [np EXCEPT !.modules =
        [m \in 1..Len(np.modules) |->
            [np.modules[m] EXCEPT !.instructions =
                [i \in 1..Len(np.modules[m].instructions) |->
                    link_instruction(np.modules[m].instructions[i])]]]]

-----------------------------------------------------------------------------
(* Inference (normalization/inference.rs)                                  *)

\* The payer of an Initialize: the value of the first "payer" constraint
init_payer(field) ==
    LET c == find_constraint(field, "payer") IN
    IF IsSome(c) /\ IsSome(Unwrap(c).value) THEN Unwrap(Unwrap(c).value) ELSE "payer"

\* The first loop of infer_operations_from_account
init_operations(account) ==
    FoldLeft(LAMBDA ops, field :
                 IF has_constraint(field, "init")
                 THEN Append(ops, Initialize(field.name, init_payer(field)))
                 ELSE ops,
             <<>>, account.fields)

\* Variant: the last "close" constraint of the field gives refund_to
named_operations_last_close(instruction, account) ==
    IF instruction.name \in {"transfer", "send"} THEN
        IF IsSome(find_field(account, "from")) /\ IsSome(find_field(account, "to"))
        THEN <<Transfer("from", "to")>>
        ELSE <<>>
    ELSE IF instruction.name = "close" THEN
        LET close_field == Find(account.fields, LAMBDA f : has_constraint(f, "close")) IN
        IF IsSome(close_field)
        THEN LET cs == Unwrap(close_field).constraints
                 c == cs[LastIndex(cs, LAMBDA x : x.constraint_type = "close")]
             IN  <<Close(Unwrap(close_field).name,
                         IF IsSome(c.value) THEN Unwrap(c.value) ELSE "authority")>>
        ELSE <<>>
    ELSE <<>>

\* Variant: "send" is not among the matched names
named_operations_transfer_only(instruction, account) ==
    IF instruction.name = "transfer" /\ IsSome(find_field(account, "from"))
       /\ IsSome(find_field(account, "to"))
    THEN <<Transfer("from", "to")>>
    ELSE <<>>

\* The match on the instruction's name
named_operations(instruction, account) ==
    IF instruction.name \in {"initialize", "init", "create"} THEN <<>>
    ELSE IF instruction.name \in {"transfer", "send"} THEN
        LET from == find_field(account, "from")
            to == find_field(account, "to")
        IN  IF IsSome(from) /\ IsSome(to)
            THEN <<Transfer(Unwrap(from).name, Unwrap(to).name)>>
            ELSE <<>>
    ELSE IF instruction.name = "close" THEN
        LET close_field == Find(account.fields, LAMBDA f : has_constraint(f, "close")) IN
        IF IsSome(close_field)
        THEN LET c == find_constraint(Unwrap(close_field), "close")
                 refund_to == IF IsSome(c) /\ IsSome(Unwrap(c).value)
                              THEN Unwrap(Unwrap(c).value) ELSE "authority"
             IN  <<Close(Unwrap(close_field).name, refund_to)>>
        ELSE <<>>
    ELSE <<>>

infer_operations_from_account(instruction, account) ==
    init_operations(account) \o named_operations(instruction, account)

\* Variant: the inferred list replaces the body even when it is empty
inferred_body_always_replaced(np, instruction) ==
    IF IsSome(instruction.body) /\ Unwrap(instruction.body).kind = "Basic"
    THEN instruction.body
    ELSE IF IsSome(instruction.account_struct_name)
            /\ IsSome(find_account_struct(np, Unwrap(instruction.account_struct_name)))
         THEN Some(Basic(infer_operations_from_account(instruction,
                  Unwrap(find_account_struct(np, Unwrap(instruction.account_struct_name))))))
         ELSE instruction.body

\* One instruction of infer_instruction_operations: the new body
inferred_body(np, instruction) ==
    IF IsSome(instruction.body) /\ Unwrap(instruction.body).kind = "Basic"
    THEN instruction.body
    ELSE IF IsSome(instruction.account_struct_name)
            /\ IsSome(find_account_struct(np, Unwrap(instruction.account_struct_name)))
         THEN LET account == Unwrap(find_account_struct(np, Unwrap(instruction.account_struct_name)))
                  operations == infer_operations_from_account(instruction, account)
              IN  IF operations # <<>> THEN Some(Basic(operations)) ELSE instruction.body
         ELSE instruction.body

infer_instruction_operations(np) ==
    [np EXCEPT !.modules =
        [m \in 1..Len(np.modules) |->
            [np.modules[m] EXCEPT !.instructions =
                [i \in 1..Len(np.modules[m].instructions) |->
                    [np.modules[m].instructions[i] EXCEPT
                        !.body = inferred_body(np, np.modules[m].instructions[i])]]]]]

contains_Signer(ty) == \E i \in 1..Len(ty) : ty[i] \in {"Signer", "UncheckedSigner"}

\* Variant: "mut" is inferred for an "init" field without looking for one
\* already there
constraints_to_add_unguarded_mut(field) ==
    (IF field.name \in {"authority", "owner", "admin"}
        /\ ~has_constraint(field, "signer")
        /\ contains_Signer(field.ty)
     THEN <<without_value("signer", TRUE)>> ELSE <<>>)
    \o
    (IF has_constraint(field, "init")
     THEN <<without_value("mut", TRUE)>> ELSE <<>>)

\* Variant: "signer" is inferred without looking for one already there
constraints_to_add_unguarded_signer(field) ==
    (IF field.name \in {"authority", "owner", "admin"} /\ contains_Signer(field.ty)
     THEN <<without_value("signer", TRUE)>> ELSE <<>>)
    \o
    (IF has_constraint(field, "init") /\ ~has_constraint(field, "mut")
     THEN <<without_value("mut", TRUE)>> ELSE <<>>)

\* Variant: "mut" is inferred for every field that lacks it
constraints_to_add_mut_everywhere(field) ==
    (IF field.name \in {"authority", "owner", "admin"}
        /\ ~has_constraint(field, "signer")
        /\ contains_Signer(field.ty)
     THEN <<without_value("signer", TRUE)>> ELSE <<>>)
    \o
    (IF ~has_constraint(field, "mut")
     THEN <<without_value("mut", TRUE)>> ELSE <<>>)

\* Variant: "signer" is inferred from the name alone
constraints_to_add_signer_by_name(field) ==
    (IF field.name \in {"authority", "owner", "admin"}
        /\ ~has_constraint(field, "signer")
     THEN <<without_value("signer", TRUE)>> ELSE <<>>)
    \o
    (IF has_constraint(field, "init") /\ ~has_constraint(field, "mut")
     THEN <<without_value("mut", TRUE)>> ELSE <<>>)

\* The constraints infer_field_constraints collects for one field, in push order
constraints_to_add(field) ==
    (IF field.name \in {"authority", "owner", "admin"}
        /\ ~has_constraint(field, "signer")
        /\ contains_Signer(field.ty)
     THEN <<without_value("signer", TRUE)>> ELSE <<>>)
    \o
    (IF has_constraint(field, "init") /\ ~has_constraint(field, "mut")
     THEN <<without_value("mut", TRUE)>> ELSE <<>>)

infer_field_constraints(np) ==
    [np EXCEPT !.account_structs =
        [a \in 1..Len(np.account_structs) |->
            [np.account_structs[a] EXCEPT !.fields =
                [f \in 1..Len(np.account_structs[a].fields) |->
                    FoldLeft(add_constraint, np.account_structs[a].fields[f],
                             constraints_to_add(np.account_structs[a].fields[f]))]]]]

RECURSIVE Flatten(_)
Flatten(ss) == IF ss = <<>> THEN <<>> ELSE Head(ss) \o Flatten(Tail(ss))

\* Variant: the scan goes field by field and constraint by constraint, so
\* the last qualifying constraint of a field decides
relationships_to_add_by_constraint(account) ==
    LET n == Len(account.fields)
        of_constraint(j, c) ==
            Flatten([i \in 1..n |->
                IF i # j /\ c.constraint_type \in {"has_one", "belongs_to"}
                   /\ IsSome(c.value) /\ Unwrap(c.value) = account.fields[i].name
                THEN <<[field_idx |-> j, related_field |-> account.fields[i].name]>>
                ELSE <<>>])
        of_field(j) ==
            Flatten([k \in 1..Len(account.fields[j].constraints) |->
                        of_constraint(j, account.fields[j].constraints[k])])
    IN  Flatten([j \in 1..n |-> of_field(j)])

\* relationships_to_add of one struct: (field_idx, related_field) in push order
relationships_to_add(account) ==
    LET n == Len(account.fields)
        of_constraint(i, j, c) ==
            IF c.constraint_type \in {"has_one", "belongs_to"}
               /\ IsSome(c.value) /\ Unwrap(c.value) = account.fields[i].name
            THEN <<[field_idx |-> j, related_field |-> account.fields[i].name]>>
            ELSE <<>>
        of_pair(i, j) ==
            IF i = j THEN <<>>
            ELSE Flatten([k \in 1..Len(account.fields[j].constraints) |->
                             of_constraint(i, j, account.fields[j].constraints[k])])
        of_field(i) == Flatten([j \in 1..n |-> of_pair(i, j)])
    IN  Flatten([i \in 1..n |-> of_field(i)])

infer_account_relationships(np) ==
    [np EXCEPT !.account_structs =
        [a \in 1..Len(np.account_structs) |->
            [np.account_structs[a] EXCEPT !.fields =
                FoldLeft(LAMBDA fields, r :
                             [fields EXCEPT ![r.field_idx].inferred_info.related_account =
                                 Some(r.related_field)],
                         np.account_structs[a].fields,
                         relationships_to_add(np.account_structs[a]))]]]

infer_missing_semantics(np) ==
    infer_account_relationships(infer_field_constraints(infer_instruction_operations(np)))

-----------------------------------------------------------------------------
(* Validation (normalization/validation.rs)                                *)

\* One loop of validate_unique_account_names over `accounts`, from the state
\* st = [names, issues] the earlier loop left
unique_names_scan(st, accounts, what) ==
    FoldLeft(LAMBDA acc, account :
                 IF account.name \in acc.names
                 THEN [acc EXCEPT !.issues = Append(acc.issues,
                          ValidationIssue("Error", <<what, account.name>>, account.name))]
                 ELSE [acc EXCEPT !.names = acc.names \cup {account.name}],
             st, accounts)

\* Variant: the raw accounts are checked against a set of their own
validate_unique_account_names_apart(np) ==
    unique_names_scan([names |-> {}, issues |-> <<>>], np.account_structs,
                      "Duplicate account struct name: ").issues
    \o unique_names_scan([names |-> {}, issues |-> <<>>], np.raw_accounts,
                         "Duplicate account name: ").issues

validate_unique_account_names(np) ==
    unique_names_scan(
        unique_names_scan([names |-> {}, issues |-> <<>>], np.account_structs,
                          "Duplicate account struct name: "),
        np.raw_accounts, "Duplicate account name: ").issues

\* All instructions, module by module
all_instructions(np) == Flatten([m \in 1..Len(np.modules) |-> np.modules[m].instructions])

\* Variant: a raw account of the referenced name counts as declared
validate_instruction_references_any_account(np) ==
    LET account_names == {np.account_structs[a].name : a \in 1..Len(np.account_structs)}
                         \cup {np.raw_accounts[r].name : r \in 1..Len(np.raw_accounts)}
    IN
    FoldLeft(LAMBDA issues, instruction :
                 IF IsSome(instruction.account_struct_name)
                 THEN IF Unwrap(instruction.account_struct_name) \notin account_names
                      THEN Append(issues, ValidationIssue("Warning",
                               <<"Instruction ", instruction.name,
                                 " references undefined account struct ",
                                 Unwrap(instruction.account_struct_name)>>,
                               instruction.name))
                      ELSE issues
                 ELSE IF has_context_parameter(instruction)
                      THEN Append(issues, ValidationIssue("Warning",
                               <<"Instruction ", instruction.name,
                                 " has Context parameter but no associated account struct">>,
                               instruction.name))
                      ELSE issues,
             <<>>, all_instructions(np))

validate_instruction_references(np) ==
    LET account_names == {np.account_structs[a].name : a \in 1..Len(np.account_structs)} IN
    FoldLeft(LAMBDA issues, instruction :
                 IF IsSome(instruction.account_struct_name)
                 THEN IF Unwrap(instruction.account_struct_name) \notin account_names
                      THEN Append(issues, ValidationIssue("Warning",
                               <<"Instruction ", instruction.name,
                                 " references undefined account struct ",
                                 Unwrap(instruction.account_struct_name)>>,
                               instruction.name))
                      ELSE issues
                 ELSE IF has_context_parameter(instruction)
                      THEN Append(issues, ValidationIssue("Warning",
                               <<"Instruction ", instruction.name,
                                 " has Context parameter but no associated account struct">>,
                               instruction.name))
                      ELSE issues,
             <<>>, all_instructions(np))

\* One loop of validate_field_types over `accounts`
field_types_scan(accounts, what) ==
    Flatten([a \in 1..Len(accounts) |->
        FoldLeft(LAMBDA issues, field :
                     IF field.ty = <<>>
                     THEN Append(issues, ValidationIssue("Warning",
                              <<"Field ", field.name, what, accounts[a].name,
                                " has no type information">>,
                              accounts[a].name \o "." \o field.name))
                     ELSE issues,
                 <<>>, accounts[a].fields)])

validate_field_types(np) ==
    field_types_scan(np.account_structs, " in account ")
    \o field_types_scan(np.raw_accounts, " in raw account ")

validate_visibility(np) ==
    FoldLeft(LAMBDA issues, instruction :
                 IF instruction.visibility # "pub"
                 THEN Append(issues, ValidationIssue("Info",
                          <<"Instruction ", instruction.name,
                            " has non-public visibility: ", instruction.visibility>>,
                          instruction.name))
                 ELSE issues,
             <<>>, all_instructions(np))

\* Variant: validation also drops the references it finds undefined
validate_program_unlinking(np) ==
    LET issues == validate_unique_account_names(np)
                  \o validate_instruction_references(np)
                  \o validate_field_types(np)
                  \o validate_visibility(np)
    IN  [np EXCEPT
            !.validation_issues = np.validation_issues \o issues,
            !.modules = [m \in 1..Len(np.modules) |->
                [np.modules[m] EXCEPT !.instructions =
                    [i \in 1..Len(np.modules[m].instructions) |->
                        LET instr == np.modules[m].instructions[i] IN
                        IF IsSome(instr.account_struct_name)
                           /\ IsNone(find_account_struct(np, Unwrap(instr.account_struct_name)))
                        THEN [instr EXCEPT !.account_struct_name = None]
                        ELSE instr]]]]

\* Variant: the visibility scan reports first
validate_program_visibility_first(np) ==
    LET issues == validate_visibility(np)
                  \o validate_unique_account_names(np)
                  \o validate_instruction_references(np)
                  \o validate_field_types(np)
    IN  [np EXCEPT !.validation_issues = np.validation_issues \o issues]

validate_program(np) ==
    LET issues == validate_unique_account_names(np)
                  \o validate_instruction_references(np)
                  \o validate_field_types(np)
                  \o validate_visibility(np)
    IN  [np EXCEPT !.validation_issues = np.validation_issues \o issues]

-----------------------------------------------------------------------------
(* normalize_program, one action per step                                  *)

\* What the clock may read when generate_program_id asks it
Timestamps == {1700000000, 1700000001}

SourceInfo(path) == [file_path |-> Str(path), line_range |-> None]

NoOutcome == [normalized |-> None, error |-> None]

\* let name = extract_program_name(program)?;
ExtractProgramName ==
    /\ pc = "name"
    /\ LET r == extract_program_name(program) IN
       IF r.ok
       THEN /\ name' = Some(r.value)
            /\ pc' = "id"
            /\ UNCHANGED error
       ELSE /\ error' = Some(r.error)
            /\ pc' = "failed"
            /\ UNCHANGED name
    /\ UNCHANGED <<file, program, call, normalized, reruns, first>>

\* let id = generate_program_id(program); NormalizedProgram::new; source_info
GenerateProgramId ==
    /\ pc = "id"
    /\ \E now \in Timestamps :
        LET np == NewNormalizedProgram(generate_program_id(program, now), Unwrap(name)) IN
        normalized' = Some(IF IsSome(program.source_path)
                           THEN [np EXCEPT !.source_info =
                                    Some(SourceInfo(Unwrap(program.source_path)))]
                           ELSE np)
    /\ pc' = "copy"
    /\ UNCHANGED <<file, program, call, name, error, reruns, first>>

\* the loops over program_modules, account_structs and raw_accounts
NormalizeStructure ==
    /\ pc = "copy"
    /\ normalized' = Some(normalize_structure(Unwrap(normalized), program))
    /\ pc' = "link"
    /\ UNCHANGED <<file, program, call, name, error, reruns, first>>

LinkInstructionsToAccounts ==
    /\ pc = "link"
    /\ normalized' = Some(link_instructions_to_accounts(Unwrap(normalized)))
    /\ pc' = "infer_operations"
    /\ UNCHANGED <<file, program, call, name, error, reruns, first>>

\* infer_missing_semantics, pass by pass
InferInstructionOperations ==
    /\ pc = "infer_operations"
    /\ normalized' = Some(infer_instruction_operations(Unwrap(normalized)))
    /\ pc' = "infer_constraints"
    /\ UNCHANGED <<file, program, call, name, error, reruns, first>>

InferFieldConstraints ==
    /\ pc = "infer_constraints"
    /\ normalized' = Some(infer_field_constraints(Unwrap(normalized)))
    /\ pc' = "infer_relationships"
    /\ UNCHANGED <<file, program, call, name, error, reruns, first>>

InferAccountRelationships ==
    /\ pc = "infer_relationships"
    /\ normalized' = Some(infer_account_relationships(Unwrap(normalized)))
    /\ pc' = "validate"
    /\ UNCHANGED <<file, program, call, name, error, reruns, first>>

\* validate_program(&mut normalized)?; Ok(normalized)
ValidateProgram ==
    /\ pc = "validate"
    /\ normalized' = Some(validate_program(Unwrap(normalized)))
    /\ pc' = "done"
    /\ UNCHANGED <<file, program, call, name, error, reruns, first>>

\* A caller applies infer_missing_semantics once more to the returned program
ReInfer ==
    /\ pc = "done"
    /\ reruns < MaxReInfer
    /\ normalized' = Some(infer_missing_semantics(Unwrap(normalized)))
    /\ reruns' = reruns + 1
    /\ UNCHANGED <<file, program, pc, call, name, error, first>>

\* A caller calls normalize a second time on the same Program
NormalizeAgain ==
    /\ pc \in {"done", "failed"}
    /\ call = 1
    /\ reruns = 0
    /\ first' = [normalized |-> normalized, error |-> error]
    /\ call' = 2
    /\ pc' = "name"
    /\ name' = None
    /\ normalized' = None
    /\ error' = None
    /\ UNCHANGED <<file, program, reruns>>

Next ==
    \/ ExtractProgramName
    \/ GenerateProgramId
    \/ NormalizeStructure
    \/ LinkInstructionsToAccounts
    \/ InferInstructionOperations
    \/ InferFieldConstraints
    \/ InferAccountRelationships
    \/ ValidateProgram
    \/ ReInfer
    \/ NormalizeAgain

\* The state when normalize is entered with input p
Start(p) ==
    /\ file = None
    /\ program = p
    /\ pc = "name"
    /\ call = 1
    /\ name = None
    /\ normalized = None
    /\ error = None
    /\ reruns = 0
    /\ first = NoOutcome

-----------------------------------------------------------------------------
(* Inputs                                                                  *)

Program(modules, structs, raws, path) ==
    [program_modules |-> modules, account_structs |-> structs,
     raw_accounts |-> raws, source_path |-> path]
ProgramModule(mname, visibility, instructions) ==
    [name |-> mname, visibility |-> visibility, instructions |-> instructions]
Instruction(iname, visibility, parameters, return_type, context_type) ==
    [name |-> iname, visibility |-> visibility, parameters |-> parameters,
     return_type |-> return_type, context_type |-> context_type]
Parameter(pname, ty, is_context) == [name |-> pname, ty |-> ty, is_context |-> is_context]
Account(aname, visibility, fields) ==
    [name |-> aname, visibility |-> visibility, fields |-> fields]
AccountField(fname, ty, constraints) ==
    [name |-> fname, ty |-> ty, constraints |-> constraints]
Constraint(constraint_type, value) == [constraint_type |-> constraint_type, value |-> value]
RawAccount(aname, visibility, fields) ==
    [name |-> aname, visibility |-> visibility, fields |-> fields]
RawAccountField(fname, ty, visibility) ==
    [name |-> fname, ty |-> ty, visibility |-> visibility]

\* Parameter::new_context: ty = format!("Context<{}>", context_type)
new_context(pname, context_type) ==
    Parameter(pname, <<"Context", "<", context_type, ">">>, TRUE)

\* Program::new(): nothing declared, no source path
EmptyProgram == Program(<<>>, <<>>, <<>>, None)

U64 == <<"u64">>
SignerTy == <<"Signer", "<", "'info", ">">>
AccountTy == <<"Account", "<", "'info", ",", "Mint", ">">>
ResultTy == <<"Result", "<", "(", ")", ">">>

-----------------------------------------------------------------------------
(* The syntax tree (syn) as far as the conversion looks at it              *)

\* syn::Type: Path (segments of ident and arguments), Reference, Tuple;
\* a generic argument is a type or a lifetime
TypePath(segments) == [kind |-> "Path", segments |-> segments]
PathSegment(ident, arguments) == [ident |-> ident, arguments |-> arguments]
TypeReference(mutability, elem) ==
    [kind |-> "Reference", mutability |-> mutability, elem |-> elem]
TypeTuple == [kind |-> "Tuple"]
Lifetime(ident) == [kind |-> "Lifetime", ident |-> ident]
\* PathArguments::None / PathArguments::AngleBracketed(args)
NoArguments == None
AngleBracketed(args) == Some(args)

\* syn::FnArg, syn::Pat, syn::Visibility, syn::ItemFn
Typed(pat, ty) == [kind |-> "Typed", pat |-> pat, ty |-> ty]
Receiver == [kind |-> "Receiver"]
PatIdent(ident) == [kind |-> "Ident", ident |-> ident]
PatWild == [kind |-> "Wild"]
Public == [kind |-> "Public"]
Restricted(path) == [kind |-> "Restricted", path |-> path]
Inherited == [kind |-> "Inherited"]
ItemFn(ident, vis, inputs, output) ==
    [kind |-> "Fn", ident |-> ident, vis |-> vis, inputs |-> inputs, output |-> output]

\* syn::Attribute: its path and the text inside its delimiters, if any
Attribute(path, args) == [path |-> path, args |-> args]
\* syn::Field, syn::ItemStruct, syn::ItemMod, any other item
Field(ident, vis, ty, attrs) == [ident |-> ident, vis |-> vis, ty |-> ty, attrs |-> attrs]
ItemStruct(ident, vis, attrs, fields) ==
    [kind |-> "Struct", ident |-> ident, vis |-> vis, attrs |-> attrs, fields |-> fields]
ItemMod(ident, vis, attrs, content) ==
    [kind |-> "Mod", ident |-> ident, vis |-> vis, attrs |-> attrs, content |-> content]
ItemUse == [kind |-> "Use"]

-----------------------------------------------------------------------------
(* Predicates (parser/predicates.rs)                                       *)

is_anchor_program(module) == AnyOf(module.attrs, LAMBDA attr : attr.path = "program")

is_context_path(type_path) ==
    AnyOf(type_path.segments, LAMBDA segment : segment.ident = "Context")

RECURSIVE has_context_type(_)
has_context_type(ty) ==
    IF ty.kind = "Path" THEN is_context_path(ty)
    ELSE IF ty.kind = "Reference" THEN has_context_type(ty.elem)
    ELSE FALSE

is_anchor_instruction(func) ==
    AnyOf(func.inputs, LAMBDA arg : arg.kind = "Typed" /\ has_context_type(arg.ty))

\* parse_args_with on a derive attribute: the paths listed, Accounts among them
is_account_struct(structure) ==
    AnyOf(structure.attrs,
          LAMBDA attr : /\ attr.path = "derive"
                        /\ IsSome(attr.args)
                        /\ "Accounts" \in Range(Unwrap(attr.args)))

is_raw_account(structure) == AnyOf(structure.attrs, LAMBDA attr : attr.path = "account")

-----------------------------------------------------------------------------
(* Conversion (parser/convert.rs)                                          *)

ParseError(msg) == [type |-> "Parse", msg |-> msg]

\* Visibility to text
format_visibility(vis) ==
    IF vis.kind = "Public" THEN "pub"
    ELSE IF vis.kind = "Restricted" THEN "pub(" \o vis.path \o ")"
    ELSE ""

\* The tokens of a type, as to_token_stream yields them
RECURSIVE type_tokens(_), arguments_tokens(_)
type_tokens(ty) ==
    IF ty.kind = "Path" THEN
        Flatten([k \in 1..Len(ty.segments) |->
            (IF k > 1 THEN <<"::">> ELSE <<>>)
            \o <<ty.segments[k].ident>>
            \o (IF IsSome(ty.segments[k].arguments)
                THEN <<"<">> \o arguments_tokens(Unwrap(ty.segments[k].arguments)) \o <<">">>
                ELSE <<>>)])
    ELSE IF ty.kind = "Reference" THEN
        <<"&">> \o (IF ty.mutability THEN <<"mut">> ELSE <<>>) \o type_tokens(ty.elem)
    ELSE IF ty.kind = "Lifetime" THEN <<ty.ident>>
    ELSE <<"(", ")">>
arguments_tokens(args) ==
    Flatten([k \in 1..Len(args) |->
        (IF k > 1 THEN <<",">> ELSE <<>>) \o type_tokens(args[k])])

\* TokenStream::to_string: the tokens with one blank between neighbours
Spaced(toks) ==
    Flatten([k \in 1..Len(toks) |-> (IF k > 1 THEN <<" ">> ELSE <<>>) \o <<toks[k]>>])

\* The punctuation format_type removes the blanks around
IsTight(t) == t \in {":", "::", "<", ">", "(", ")", "[", "]", ","}

\* format_type: the replace chain and the whitespace collapse
format_type(ty) ==
    LET raw == Spaced(type_tokens(ty))
        keep(k) == \/ raw[k] # " "
                   \/ /\ k > 1 /\ k < Len(raw)
                      /\ ~IsTight(raw[k - 1]) /\ ~IsTight(raw[k + 1])
    IN  Flatten([k \in 1..Len(raw) |-> IF keep(k) THEN <<raw[k]>> ELSE <<>>])

\* get_context_info: (is_context, context_type)
get_context_info(ty) ==
    IF ty.kind = "Path" /\ AnyOf(ty.segments, LAMBDA segment : segment.ident = "Context")
    THEN LET segment == ty.segments[Len(ty.segments)] IN
         IF /\ IsSome(segment.arguments)
            /\ Unwrap(segment.arguments) # <<>>
            /\ Head(Unwrap(segment.arguments)).kind # "Lifetime"
         THEN [is_context |-> TRUE,
               context_type |-> Some(Str(format_type(Head(Unwrap(segment.arguments)))))]
         ELSE [is_context |-> TRUE, context_type |-> None]
    ELSE [is_context |-> FALSE, context_type |-> None]

\* The loop body of convert_instruction for one input
convert_parameter(instruction, input) ==
    IF input.kind = "Typed" THEN
        LET param_name == IF input.pat.kind = "Ident" THEN input.pat.ident ELSE "unnamed"
            info == get_context_info(input.ty)
            param_type == format_type(input.ty)
            with_context == IF info.is_context /\ IsSome(info.context_type)
                            THEN [instruction EXCEPT !.context_type = info.context_type]
                            ELSE instruction
        IN  [with_context EXCEPT !.parameters =
                Append(@, Parameter(param_name, param_type, info.is_context))]
    ELSE instruction

convert_instruction(function) ==
    FoldLeft(convert_parameter,
             Instruction(function.ident, format_visibility(function.vis), <<>>,
                         IF IsSome(function.output)
                         THEN Some(format_type(Unwrap(function.output))) ELSE None,
                         None),
             function.inputs)

\* attr.to_token_stream().to_string()
attribute_text(attr) ==
    IF IsSome(attr.args)
    THEN <<"#", " ", "[", attr.path, " ", "(">> \o Unwrap(attr.args) \o <<")", "]">>
    ELSE <<"#", " ", "[", attr.path, "]">>

IsOpenParen(c) == c = "("
IsCloseParen(c) == c = ")"
IsEquals(c) == c = "="

\* One character of the scan: st = [constraints, current, depth]
split_step(st, c) ==
    IF c \in {"(", "[", "{"}
    THEN [st EXCEPT !.depth = @ + 1, !.current = Append(@, c)]
    ELSE IF c \in {")", "]", "}"}
    THEN [st EXCEPT !.depth = @ - 1, !.current = Append(@, c)]
    ELSE IF c = "," /\ st.depth = 0
    THEN IF Trim(st.current) # <<>>
         THEN [st EXCEPT !.constraints = Append(@, Trim(st.current)), !.current = <<>>]
         ELSE st
    ELSE [st EXCEPT !.current = Append(@, c)]

\* The segments the scan cuts `content` into
split_constraints(content) ==
    LET st == FoldLeft(split_step, [constraints |-> <<>>, current |-> <<>>, depth |-> 0],
                       content)
    IN  IF Trim(st.current) # <<>> THEN Append(st.constraints, Trim(st.current))
        ELSE st.constraints

\* Variant: the segment is cut at its last '='
constraint_of_segment_last_equals(constraint) ==
    LET idx == LastIndex(constraint, IsEquals) IN
    IF idx # 0
    THEN Constraint(Str(Trim(SubSeq(constraint, 1, idx - 1))),
                    Some(Str(Trim(SubSeq(constraint, idx + 1, Len(constraint))))))
    ELSE Constraint(Str(constraint), None)

\* One segment to a Constraint: cut at the first '='
constraint_of_segment(constraint) ==
    LET idx == FirstIndex(constraint, IsEquals) IN
    IF idx # 0
    THEN Constraint(Str(Trim(SubSeq(constraint, 1, idx - 1))),
                    Some(Str(Trim(SubSeq(constraint, idx + 1, Len(constraint))))))
    ELSE Constraint(Str(constraint), None)

process_account_constraints(attr, field) ==
    LET attr_str == attribute_text(attr)
        start == FirstIndex(attr_str, IsOpenParen)
        end == LastIndex(attr_str, IsCloseParen)
    IN  IF start # 0 /\ end # 0
        THEN LET constraints == split_constraints(SubSeq(attr_str, start + 1, end - 1)) IN
             Ok([field EXCEPT !.constraints =
                    @ \o [k \in 1..Len(constraints) |-> constraint_of_segment(constraints[k])]])
        ELSE Err(ParseError("Failed to parse account attribute"))

\* The loop over one field's attributes; r is the Result so far
convert_account_field(field) ==
    FoldLeft(LAMBDA r, attr :
                 IF r.ok /\ attr.path = "account"
                 THEN process_account_constraints(attr, r.value)
                 ELSE r,
             Ok(AccountField(Unwrap(field.ident), format_type(field.ty), <<>>)),
             field.attrs)

convert_account_struct(structure) ==
    FoldLeft(LAMBDA r, field :
                 IF r.ok /\ IsSome(field.ident)
                 THEN LET f == convert_account_field(field) IN
                      IF f.ok THEN Ok([r.value EXCEPT !.fields = Append(@, f.value)]) ELSE f
                 ELSE r,
             Ok(Account(structure.ident, format_visibility(structure.vis), <<>>)),
             structure.fields)

convert_raw_account(structure) ==
    FoldLeft(LAMBDA raw_account, field :
                 IF IsSome(field.ident)
                 THEN [raw_account EXCEPT !.fields =
                          Append(@, RawAccountField(Unwrap(field.ident), format_type(field.ty),
                                                    format_visibility(field.vis)))]
                 ELSE raw_account,
             RawAccount(structure.ident, format_visibility(structure.vis), <<>>),
             structure.fields)

process_program_item(program_module, item) ==
    IF item.kind = "Fn" /\ is_anchor_instruction(item)
    THEN [program_module EXCEPT !.instructions = Append(@, convert_instruction(item))]
    ELSE program_module

\* process_item on the Result so far
process_item(r, item) ==
    IF ~r.ok THEN r
    ELSE IF item.kind = "Mod" THEN
        IF is_anchor_program(item)
        THEN Ok([r.value EXCEPT !.program_modules = Append(@,
                    FoldLeft(process_program_item,
                             ProgramModule(item.ident, format_visibility(item.vis), <<>>),
                             IF IsSome(item.content) THEN Unwrap(item.content) ELSE <<>>))])
        ELSE r
    ELSE IF item.kind = "Struct" THEN
        IF is_account_struct(item)
        THEN LET account == convert_account_struct(item) IN
             IF account.ok
             THEN Ok([r.value EXCEPT !.account_structs = Append(@, account.value)])
             ELSE account
        ELSE IF is_raw_account(item)
        THEN Ok([r.value EXCEPT !.raw_accounts = Append(@, convert_raw_account(item))])
        ELSE r
    ELSE r

convert_file(items) == FoldLeft(process_item, Ok(EmptyProgram), items)

\* parse_str, from the syntax tree on; the caller hands the Program to normalize
ParseStr ==
    /\ pc = "parse"
    /\ LET r == convert_file(Unwrap(file)) IN
       IF r.ok
       THEN /\ program' = r.value
            /\ pc' = "name"
            /\ UNCHANGED error
       ELSE /\ error' = Some(r.error)
            /\ pc' = "rejected"
            /\ UNCHANGED program
    /\ UNCHANGED <<file, call, name, normalized, reruns, first>>

NextParse ==
    \/ ParseStr
    \/ Next

\* The state when parse_str has the syntax tree `items` in hand
StartParse(items) ==
    /\ file = Some(items)
    /\ program = EmptyProgram
    /\ pc = "parse"
    /\ call = 1
    /\ name = None
    /\ normalized = None
    /\ error = None
    /\ reruns = 0
    /\ first = NoOutcome

\* --- inputs that exercise the inference passes ---

InstrNames == {"initialize", "transfer", "send", "close", "mint"}

\* The ways an instruction comes with or without its account struct
InferInstructions ==
    \* reference set at conversion
    {Instruction(n, "pub", <<new_context("ctx", "Vault")>>, Some(ResultTy), Some("Vault")) :
        n \in InstrNames}
    \cup
    \* reference left to linking
    {Instruction(n, "pub", <<new_context("ctx", "Vault"), Parameter("amount", U64, FALSE)>>,
                 Some(ResultTy), None) : n \in {"transfer", "mint"}}
    \cup
    \* dangling reference
    {Instruction(n, "pub", <<new_context("ctx", "Missing")>>, Some(ResultTy), Some("Missing")) :
        n \in {"transfer", "initialize"}}
    \cup
    \* no reference and no context parameter
    {Instruction(n, "pub", <<Parameter("amount", U64, FALSE)>>, Some(ResultTy), None) :
        n \in {"send", "close"}}

InferFields == {
    AccountField("from", AccountTy, <<Constraint("mut", None)>>),
    AccountField("to", AccountTy, <<>>),
    AccountField("authority", SignerTy, <<>>),
    AccountField("authority", SignerTy, <<Constraint("signer", None)>>),
    AccountField("vault", AccountTy, <<Constraint("init", None), Constraint("payer", Some("authority"))>>),
    AccountField("vault", AccountTy, <<Constraint("init", None)>>),
    AccountField("vault", AccountTy,
                 <<Constraint("payer", None), Constraint("init", None), Constraint("payer", Some("from"))>>),
    AccountField("mint", AccountTy,
                 <<Constraint("mut", None), Constraint("init", None), Constraint("payer", Some("from"))>>),
    AccountField("to", AccountTy, <<Constraint("init", None), Constraint("has_one", Some("authority"))>>),
    AccountField("authority", SignerTy, <<Constraint("init", None), Constraint("payer", Some("to"))>>),
    AccountField("from", AccountTy, <<Constraint("has_one", Some("vault")), Constraint("belongs_to", Some("to"))>>),
    AccountField("authority", AccountTy, <<>>),
    AccountField("payer", SignerTy, <<>>),
    AccountField("admin", <<"Option", "<", "UncheckedSigner", ">">>, <<Constraint("mut", None)>>),
    AccountField("owner", AccountTy, <<Constraint("close", Some("authority"))>>),
    AccountField("vault", AccountTy, <<Constraint("close", None), Constraint("close", Some("to"))>>),
    AccountField("mint", AccountTy,
                 <<Constraint("payer", Some("to")), Constraint("payer", Some("from")),
                   Constraint("payer", None)>>)
}

\* Structs in which a field refers to more than one of the others
RelatedFields == {
    <<AccountField("to", AccountTy, <<>>),
      AccountField("from", AccountTy,
                   <<Constraint("has_one", Some("vault")), Constraint("belongs_to", Some("to"))>>),
      AccountField("vault", AccountTy, <<Constraint("has_one", Some("vault"))>>)>>,
    <<AccountField("mint", AccountTy,
                   <<Constraint("init", None), Constraint("payer", Some("to")),
                     Constraint("payer", Some("from")), Constraint("payer", None)>>),
      AccountField("to", AccountTy, <<>>),
      AccountField("from", AccountTy,
                   <<Constraint("payer", Some("owner")), Constraint("belongs_to", Some("to")),
                     Constraint("has_one", Some("mint")), Constraint("has_one", Some("from"))>>)>>
}

InferPrograms ==
    {Program(<<ProgramModule("token", "pub", <<i>>)>>, <<Account("Vault", "pub", fs)>>, <<>>, None) :
        i \in InferInstructions, fs \in SeqsUpTo(InferFields, MaxFields) \cup RelatedFields}

Init == \E p \in InferPrograms \cup {EmptyProgram} : Start(p)

Spec == Init /\ [][Next]_vars

\* --- inputs that exercise name and id derivation ---

PathChars == {"/", ".", "m", "r"}
SourcePaths == {None} \cup {Some(path) : path \in SeqsUpTo(PathChars, MaxPathLen)}

NameModules == {
    ProgramModule("alpha", "pub",
        <<Instruction("initialize", "pub", <<new_context("ctx", "Initialize")>>,
                      Some(ResultTy), Some("Initialize"))>>),
    \* a dangling reference, and an instruction with no context parameter
    ProgramModule("beta", "pub",
        <<Instruction("initialize", "pub", <<new_context("ctx", "NonExistentStruct")>>,
                      Some(ResultTy), Some("NonExistentStruct")),
          Instruction("invalid", "pub", <<Parameter("value", U64, FALSE)>>,
                      Some(ResultTy), None)>>),
    \* a context parameter that names no struct, and two that name one each
    ProgramModule("gamma", "pub",
        <<Instruction("update", "pub", <<Parameter("ctx", <<"Context">>, TRUE)>>,
                      Some(ResultTy), None),
          Instruction("withdraw", "pub",
                      <<new_context("ctx", "Initialize"), new_context("other", "ProgramData")>>,
                      Some(ResultTy), None)>>),
    \* instructions that are not public
    ProgramModule("delta", "pub(crate)",
        <<Instruction("burn", "", <<new_context("ctx", "Initialize")>>,
                      Some(ResultTy), Some("Initialize")),
          Instruction("mint", "pub(crate)", <<Parameter("value", U64, FALSE)>>, None, None)>>)
}

NameAccounts == {
    <<Account("Initialize", "pub", <<>>)>>,
    \* a duplicate struct name
    <<Account("Initialize", "pub", <<>>), Account("Initialize", "pub", <<>>)>>,
    \* a field with an empty type text
    <<Account("Initialize", "pub", <<AccountField("payer", <<>>, <<>>)>>)>>,
    \* a duplicate whose name contains the text "Program"
    <<Account("ProgramData", "pub", <<>>), Account("ProgramData", "pub", <<>>)>>
}

NameRawAccounts == {
    <<>>,
    <<RawAccount("Initialize", "pub", <<RawAccountField("owner", <<>>, "pub")>>)>>
}

\* With a module declared the path decides only the id: a few paths do
FewPaths == {None, Some(<<"m", ".", "r">>), Some(<<"/">>)}

NamePrograms ==
    {Program(<<>>, as, rs, path) :
        as \in NameAccounts, rs \in NameRawAccounts, path \in SourcePaths}
    \cup
    {Program(ms, as, rs, path) :
        ms \in SeqsUpTo(NameModules, MaxModules) \ {<<>>}, as \in NameAccounts,
        rs \in NameRawAccounts, path \in FewPaths}

InitName == \E p \in NamePrograms : Start(p)

SpecName == InitName /\ [][Next]_vars

\* --- inputs that exercise the structural copy ---

CopyModules == {
    ProgramModule("alpha", "pub",
        <<Instruction("initialize", "pub",
                      <<new_context("ctx", "Initialize"), Parameter("amount", U64, FALSE)>>,
                      Some(ResultTy), Some("Initialize")),
          Instruction("transfer", "",
                      <<Parameter("amount", U64, FALSE), new_context("ctx", "Transfer")>>,
                      None, None)>>),
    ProgramModule("beta", "pub(crate)",
        <<Instruction("transfer", "",
                      <<Parameter("amount", U64, FALSE), new_context("ctx", "Transfer")>>,
                      None, None)>>)
}

CopyAccounts == {
    Account("Initialize", "pub",
        <<AccountField("authority", SignerTy, <<>>),
          AccountField("mint", AccountTy,
                       <<Constraint("init", None), Constraint("payer", Some("authority"))>>)>>),
    Account("Transfer", "",
        <<AccountField("to", AccountTy, <<Constraint("mut", None)>>),
          AccountField("from", AccountTy,
                       <<Constraint("mut", None), Constraint("has_one", Some("to"))>>)>>)
}

CopyRawAccounts == {
    RawAccount("TokenAccount", "pub",
        <<RawAccountField("owner", <<"Pubkey">>, "pub"), RawAccountField("amount", U64, "")>>),
    RawAccount("Transfer", "", <<RawAccountField("supply", U64, "pub")>>)
}

CopyPrograms ==
    {Program(ms, as, rs, path) :
        ms \in SeqsUpTo(CopyModules, MaxModules), as \in SeqsUpTo(CopyAccounts, MaxAccounts),
        rs \in SeqsUpTo(CopyRawAccounts, MaxAccounts),
        path \in {None, Some(<<"m", ".", "r">>)}}

InitCopy == \E p \in CopyPrograms : Start(p)

SpecCopy == InitCopy /\ [][Next]_vars

\* --- syntax trees that exercise the conversion ---

Named(T) == TypePath(<<PathSegment(T, NoArguments)>>)
ContextOf(T) == TypePath(<<PathSegment("Context", AngleBracketed(<<Named(T)>>))>>)

ParamTypes == {
    ContextOf("Initialize"),
    ContextOf("Transfer"),
    TypeReference(FALSE, ContextOf("Initialize")),
    TypeReference(TRUE, ContextOf("Transfer")),
    TypeReference(FALSE, TypeReference(TRUE, ContextOf("Initialize"))),
    TypePath(<<PathSegment("Context", NoArguments)>>),
    TypePath(<<PathSegment("Context", AngleBracketed(<<Lifetime("'info")>>))>>),
    TypePath(<<PathSegment("anchor_lang", NoArguments),
               PathSegment("Context", AngleBracketed(<<Named("Initialize")>>))>>),
    TypePath(<<PathSegment("Context", NoArguments), PathSegment("Inner", NoArguments)>>),
    TypePath(<<PathSegment("MyContext", AngleBracketed(<<Named("Initialize")>>))>>),
    Named("u64"),
    TypeTuple
}

FnArgs ==
    {Typed(PatIdent("ctx"), ty) : ty \in ParamTypes}
    \cup {Typed(PatWild, ContextOf("Initialize")), Receiver}

ResultType == TypePath(<<PathSegment("Result", AngleBracketed(<<TypeTuple>>))>>)
AccountType ==
    TypePath(<<PathSegment("Account", AngleBracketed(<<Lifetime("'info"), Named("Mint")>>))>>)
SignerType == TypePath(<<PathSegment("Signer", AngleBracketed(<<Lifetime("'info")>>))>>)

Functions ==
    {ItemFn("initialize", Public, inputs, Some(ResultType)) :
        inputs \in SeqsUpTo(FnArgs, MaxParams)}

Program_attr == Attribute("program", None)
Derive(paths) == Attribute("derive", Some(paths))

InitializeStruct(attrs) ==
    ItemStruct("Initialize", Public, <<Derive(<<"Accounts">>)>>,
               <<Field(Some("authority"), Public, SignerType, <<>>),
                 Field(Some("vault"), Public, AccountType, attrs)>>)

FnFiles ==
    {<<ItemUse, ItemMod("token", Public, <<Program_attr>>, Some(<<f>>)), InitializeStruct(<<>>)>> :
        f \in Functions}

\* The pieces attribute texts are put together from: a name, '=', ',', a
\* blank, a bracketed and a parenthesised list, the char literal ')'
Pieces == {
    <<"mut">>, <<"=">>, <<",">>, <<" ">>,
    <<"[", "a", ",", "b", "]">>,
    <<"(", "a", ",", "b", ")">>,
    <<"'", ")", "'">>
}

ExampleContents == {
    <<"init", " ", ",", " ", "payer", " ", "=", " ", "authority", " ", ",", " ",
      "space", " ", "=", " ", "8", " ", "+", " ", "32">>,
    <<"seeds", " ", "=", " ", "[", "VAULT", " ", ",", " ", "owner", "]", " ", ",", " ", "bump">>,
    <<"constraint", " ", "=", " ", "c", " ", "!", "=", " ", "'", ")", "'", " ", ",", " ",
      "seeds", " ", "=", " ", "f", "(", "a", " ", ",", " ", "b", ")">>,
    <<"constraint", " ", "=", " ", "a", " ", "=", "=", " ", "b">>
}

Contents == {Flatten(ps) : ps \in SeqsUpTo(Pieces, MaxPieces)} \cup ExampleContents

InitializeFn ==
    ItemFn("initialize", Public, <<Typed(PatIdent("ctx"), ContextOf("Initialize"))>>,
           Some(ResultType))

AttrFiles ==
    {<<ItemMod("token", Public, <<Program_attr>>, Some(<<InitializeFn>>)),
       InitializeStruct(<<Attribute("account", Some(content))>>)>> : content \in Contents}

OtherFiles == {
    \* a module that is no program, a struct that is neither kind of account
    <<ItemMod("utils", Inherited, <<>>, Some(<<InitializeFn>>)),
      ItemStruct("Plain", Public, <<Derive(<<"Debug">>)>>, <<>>),
      ItemMod("token", Restricted("crate"), <<Derive(<<"Debug">>), Program_attr>>, None)>>,
    \* a raw account, with a tuple field
    <<ItemMod("token", Public, <<Program_attr>>, Some(<<ItemUse, InitializeFn>>)),
      InitializeStruct(<<Attribute("doc", None), Attribute("account", Some(<<"mut">>)),
                         Attribute("account", Some(<<"init">>))>>),
      ItemStruct("Mint", Restricted("crate"), <<Attribute("account", None)>>,
                 <<Field(Some("supply"), Inherited, Named("u64"), <<>>),
                   Field(None, Public, Named("u64"), <<>>)>>)>>,
    \* a field attribute without arguments
    <<ItemMod("token", Public, <<Program_attr>>, Some(<<InitializeFn>>)),
      InitializeStruct(<<Attribute("account", None)>>)>>,
    \* a derive attribute without arguments
    <<ItemStruct("Initialize", Public, <<Attribute("derive", None)>>, <<>>)>>
}

ParseFiles == FnFiles \cup AttrFiles \cup OtherFiles

InitParse == \E items \in ParseFiles : StartParse(items)

SpecParse == InitParse /\ [][NextParse]_vars

-----------------------------------------------------------------------------
(* Properties                                                              *)

NP == Unwrap(normalized)
Issues == NP.validation_issues

\* The stages at which the structural copy / each later pass has run
AfterCopy == pc \in {"link", "infer_operations", "infer_constraints",
                     "infer_relationships", "validate", "done"}
AfterOperations == pc \in {"infer_constraints", "infer_relationships", "validate", "done"}
AfterConstraints == pc \in {"infer_relationships", "validate", "done"}
ReturnedOk == pc = "done"
ReturnedErr == pc = "failed"

\* The input's instructions, module by module
InputInstructions ==
    Flatten([m \in 1..Len(program.program_modules) |-> program.program_modules[m].instructions])
InputStructNames == {program.account_structs[a].name : a \in 1..Len(program.account_structs)}

\* A path has a file name when its last piece other than "" and "." is not ".."
HasFileName(path) ==
    LET pieces == SplitAtSlash(path) IN
    \E i \in 1..Len(pieces) :
        /\ pieces[i] \notin {<<>>, <<".">>, <<".", ".">>}
        /\ \A j \in (i + 1)..Len(pieces) : pieces[j] \in {<<>>, <<".">>}

NoNameDerivable ==
    /\ program.program_modules = <<>>
    /\ IsNone(program.source_path) \/ ~HasFileName(Unwrap(program.source_path))

\* normalize fails exactly on the inputs without a derivable name, with MissingInfo
ErrorOnlyWithoutName ==
    /\ ReturnedErr => /\ NoNameDerivable
                      /\ IsSome(error) /\ Unwrap(error).kind = "MissingInfo"
                      /\ IsNone(normalized)
    /\ pc \notin {"name", "failed"} => ~NoNameDerivable /\ IsNone(error)
    /\ ReturnedOk => IsSome(normalized)

IssueAbout(severity, element) ==
    \E k \in 1..Len(Issues) : Issues[k].severity = severity /\ Issues[k].element = element

\* Irregularities of the input and the issue that records each
DanglingRecorded ==
    \A i \in 1..Len(InputInstructions) :
        LET instr == InputInstructions[i] IN
        IsSome(instr.context_type) /\ Unwrap(instr.context_type) \notin InputStructNames
            => \E k \in 1..Len(Issues) :
                /\ Issues[k].severity = "Warning"
                /\ Issues[k].element = instr.name
                /\ Issues[k].message[3] = " references undefined account struct "
DuplicatesRecorded ==
    \A a, b \in 1..Len(program.account_structs) :
        a < b /\ program.account_structs[a].name = program.account_structs[b].name
            => IssueAbout("Error", program.account_structs[b].name)
EmptyTypesRecorded ==
    /\ \A a \in 1..Len(program.account_structs) :
        \A f \in 1..Len(program.account_structs[a].fields) :
            program.account_structs[a].fields[f].ty = <<>>
                => IssueAbout("Warning", program.account_structs[a].name \o "."
                                         \o program.account_structs[a].fields[f].name)
    /\ \A a \in 1..Len(program.raw_accounts) :
        \A f \in 1..Len(program.raw_accounts[a].fields) :
            program.raw_accounts[a].fields[f].ty = <<>>
                => IssueAbout("Warning", program.raw_accounts[a].name \o "."
                                         \o program.raw_accounts[a].fields[f].name)

\* An instruction with no context parameter (and so no reference)
LacksContext(instr) ==
    /\ IsNone(instr.context_type)
    /\ \A k \in 1..Len(instr.parameters) : ~instr.parameters[k].is_context
ContextlessRecorded ==
    \A i \in 1..Len(InputInstructions) :
        LacksContext(InputInstructions[i])
            => \E k \in 1..Len(Issues) :
                /\ Issues[k].severity \in {"Warning", "Error"}
                /\ Issues[k].element = InputInstructions[i].name
\* ... draws no Warning and no Error (a same-named instruction set aside)
ContextlessNotRecorded ==
    \A i \in 1..Len(InputInstructions) :
        /\ LacksContext(InputInstructions[i])
        /\ \A j \in 1..Len(InputInstructions) :
              InputInstructions[j].name = InputInstructions[i].name
                  => LacksContext(InputInstructions[j])
        => \A k \in 1..Len(Issues) :
              Issues[k].element = InputInstructions[i].name => Issues[k].severity = "Info"

\* C1 as stated: normalize returns an error only when no program name can
\* be derived, and then MissingInfo; on every other input it returns Ok and
\* each irregularity - a dangling context reference, a duplicate struct name,
\* an empty field type, an instruction without any context parameter - is
\* recorded as a validation issue.
C1_AllIrregularitiesRecorded ==
    /\ ErrorOnlyWithoutName
    /\ ReturnedOk => /\ DanglingRecorded
                     /\ DuplicatesRecorded
                     /\ EmptyTypesRecorded
                     /\ ContextlessRecorded

\* C1 as amended: the same, except that an instruction without any context
\* parameter is accepted with no issue recorded for the missing context.
C1_ErrorOnlyWithoutName ==
    /\ ErrorOnlyWithoutName
    /\ ReturnedOk => /\ DanglingRecorded
                     /\ DuplicatesRecorded
                     /\ EmptyTypesRecorded
                     /\ ContextlessNotRecorded

\* normalize returned Ok on a program with a dangling reference, an
\* instruction without context parameter, a duplicate name and an empty type
C1_Witness ==
    /\ ReturnedOk
    /\ \E i \in 1..Len(InputInstructions) : LacksContext(InputInstructions[i])
    /\ \E i \in 1..Len(InputInstructions) :
          IsSome(InputInstructions[i].context_type)
          /\ Unwrap(InputInstructions[i].context_type) \notin InputStructNames
    /\ Len(program.account_structs) = 2
    /\ \E a \in 1..Len(program.raw_accounts) :
          \E f \in 1..Len(program.raw_accounts[a].fields) :
              program.raw_accounts[a].fields[f].ty = <<>>
    /\ Len(Issues) >= 4

\* The file stem as Path::file_stem documents it: the file name itself when
\* it has no '.' or its only '.' comes first, else the part before the last '.'
IsStemOf(stem, fname) ==
    \/ /\ stem = fname
       /\ \A i \in 2..Len(fname) : fname[i] # "."
    \/ /\ stem # <<>>
       /\ \E ext \in {SubSeq(fname, k, Len(fname)) : k \in 1..(Len(fname) + 1)} :
             /\ fname = stem \o <<".">> \o ext
             /\ \A i \in 1..Len(ext) : ext[i] # "."
IsFileNameOf(fname, path) ==
    LET pieces == SplitAtSlash(path) IN
    \E i \in 1..Len(pieces) :
        /\ pieces[i] = fname
        /\ fname \notin {<<>>, <<".">>, <<".", ".">>}
        /\ \A j \in (i + 1)..Len(pieces) : pieces[j] \in {<<>>, <<".">>}

ModuleNames == {program.program_modules[m].name : m \in 1..Len(program.program_modules)}

contains_module_or_Program(s) == s \in {"ProgramData"}

\* C7: normalizing a program that has no program module either returns an
\* error, or returns a result with a validation issue whose message mentions
\* "module" or "Program" - with or without a source path.
C7_NoModuleIsReported ==
    ReturnedOk /\ program.program_modules = <<>>
        => \E k \in 1..Len(Issues) :
              \E j \in 1..Len(Issues[k].message) :
                  contains_module_or_Program(Issues[k].message[j])

\* C2: two calls of normalize on the same Program give equal results - the
\* same NormalizedProgram, validation issues in the same order - or both fail
\* with the same error.
C2_Deterministic ==
    call = 2 /\ pc \in {"done", "failed"} /\ reruns = 0
        => normalized = first.normalized /\ error = first.error

\* the second call returned Ok with issues and an inferred body, for a
\* program without source path
C2_Witness ==
    /\ call = 2
    /\ ReturnedOk
    /\ IsNone(program.source_path)
    /\ Issues # <<>>
    /\ \E i \in 1..Len(all_instructions(NP)) :
          Unwrap(all_instructions(NP)[i].body).kind = "Basic"

\* C4: the normalized modules, their instructions and parameters, the
\* account structs and their fields, the raw accounts and their fields are
\* as many and in the same order as in the input, with names, type texts and
\* visibilities unchanged.
C4_CopyPreservesOrder ==
    AfterCopy =>
        /\ Len(NP.modules) = Len(program.program_modules)
        /\ \A m \in 1..Len(program.program_modules) :
            LET src == program.program_modules[m]
                dst == NP.modules[m]
            IN  /\ dst.name = src.name
                /\ dst.visibility = src.visibility
                /\ Len(dst.instructions) = Len(src.instructions)
                /\ \A i \in 1..Len(src.instructions) :
                    /\ dst.instructions[i].name = src.instructions[i].name
                    /\ dst.instructions[i].visibility = src.instructions[i].visibility
                    /\ dst.instructions[i].return_type = src.instructions[i].return_type
                    /\ Len(dst.instructions[i].parameters) = Len(src.instructions[i].parameters)
                    /\ \A k \in 1..Len(src.instructions[i].parameters) :
                        /\ dst.instructions[i].parameters[k].name = src.instructions[i].parameters[k].name
                        /\ dst.instructions[i].parameters[k].ty = src.instructions[i].parameters[k].ty
                        /\ dst.instructions[i].parameters[k].is_context
                              = src.instructions[i].parameters[k].is_context
        /\ Len(NP.account_structs) = Len(program.account_structs)
        /\ \A a \in 1..Len(program.account_structs) :
            LET src == program.account_structs[a]
                dst == NP.account_structs[a]
            IN  /\ dst.name = src.name
                /\ dst.visibility = src.visibility
                /\ Len(dst.fields) = Len(src.fields)
                /\ \A f \in 1..Len(src.fields) :
                    /\ dst.fields[f].name = src.fields[f].name
                    /\ dst.fields[f].ty = src.fields[f].ty
        /\ Len(NP.raw_accounts) = Len(program.raw_accounts)
        /\ \A a \in 1..Len(program.raw_accounts) :
            LET src == program.raw_accounts[a]
                dst == NP.raw_accounts[a]
            IN  /\ dst.name = src.name
                /\ dst.visibility = src.visibility
                /\ Len(dst.fields) = Len(src.fields)
                /\ \A f \in 1..Len(src.fields) :
                    /\ dst.fields[f].name = src.fields[f].name
                    /\ dst.fields[f].ty = src.fields[f].ty
                    /\ dst.fields[f].visibility = src.fields[f].visibility

\* normalize returned Ok for two different modules, account structs and raw
\* accounts, the first module with two instructions
C4_Witness ==
    /\ ReturnedOk
    /\ Len(NP.modules) = 2 /\ NP.modules[1] # NP.modules[2]
    /\ Len(NP.modules[1].instructions) = 2
    /\ Len(NP.account_structs) = 2 /\ NP.account_structs[1].name # NP.account_structs[2].name
    /\ Len(NP.raw_accounts) = 2 /\ NP.raw_accounts[1] # NP.raw_accounts[2]

\* What inference may add to: constraint lists, related accounts, bodies
Semantics(np) ==
    [constraints |-> [a \in 1..Len(np.account_structs) |->
                        [f \in 1..Len(np.account_structs[a].fields) |->
                            np.account_structs[a].fields[f].constraints]],
     related |-> [a \in 1..Len(np.account_structs) |->
                    [f \in 1..Len(np.account_structs[a].fields) |->
                        np.account_structs[a].fields[f].inferred_info.related_account]],
     bodies |-> [i \in 1..Len(all_instructions(np)) |-> all_instructions(np)[i].body]]

\* C3: applying infer_missing_semantics again to the program normalize
\* returned leaves every field's constraint list, every instruction's body
\* and every field's related_account unchanged.
C3_InferenceIdempotent ==
    [][pc = "done" /\ pc' = "done" => Semantics(NP)' = Semantics(NP)]_vars

AllFields(np) == Flatten([a \in 1..Len(np.account_structs) |-> np.account_structs[a].fields])

\* inference ran again on a result with an inferred constraint, an inferred
\* body and a related account
C3_Witness ==
    /\ ReturnedOk
    /\ reruns >= 1
    /\ \E f \in 1..Len(AllFields(NP)) :
          \E k \in 1..Len(AllFields(NP)[f].constraints) :
              AllFields(NP)[f].constraints[k].is_inferred
    /\ \E f \in 1..Len(AllFields(NP)) :
          /\ IsSome(AllFields(NP)[f].inferred_info.related_account)
          /\ has_constraint(AllFields(NP)[f], "has_one")
    /\ \E i \in 1..Len(all_instructions(NP)) :
          Unwrap(all_instructions(NP)[i].body).kind = "Basic"

IsExplicit(c) == ~c.is_inferred

\* C5: for every account-struct field of the result the constraints with
\* is_inferred = false are exactly the input field's constraints, in order,
\* and each of them precedes every constraint with is_inferred = true.
C5_ExplicitThenInferred ==
    AfterCopy =>
        \A a \in 1..Len(program.account_structs) :
            \A f \in 1..Len(program.account_structs[a].fields) :
                LET src == program.account_structs[a].fields[f].constraints
                    dst == NP.account_structs[a].fields[f].constraints
                    explicit == SelectSeq(dst, IsExplicit)
                IN  /\ Len(explicit) = Len(src)
                    /\ \A k \in 1..Len(src) :
                          /\ explicit[k].constraint_type = src[k].constraint_type
                          /\ explicit[k].value = src[k].value
                    /\ \A i, j \in 1..Len(dst) :
                          i < j /\ dst[i].is_inferred => dst[j].is_inferred

\* a returned field with two explicit constraints followed by an inferred one
C5_Witness ==
    /\ ReturnedOk
    /\ \E f \in 1..Len(AllFields(NP)) :
          LET cs == AllFields(NP)[f].constraints IN
          /\ Len(cs) >= 3
          /\ ~cs[1].is_inferred /\ ~cs[2].is_inferred
          /\ cs[Len(cs)].is_inferred

\* The declared struct an instruction's reference resolves to, if any
Resolves(instr) ==
    /\ IsSome(instr.account_struct_name)
    /\ Unwrap(instr.account_struct_name) \in InputStructNames
ResolvedStruct(instr) ==
    LET a == CHOOSE a \in 1..Len(program.account_structs) :
                /\ program.account_structs[a].name = Unwrap(instr.account_struct_name)
                /\ \A b \in 1..(a - 1) :
                      program.account_structs[b].name # Unwrap(instr.account_struct_name)
    IN  program.account_structs[a]

Carries(field, ctype) ==
    \E k \in 1..Len(field.constraints) : field.constraints[k].constraint_type = ctype
CarriesInit(field) == Carries(field, "init")
IsInitialize(op) == op.op = "Initialize"
IsTransfer(op) == op.op = "Transfer"
Operations(instr) == Unwrap(instr.body).operations

\* The payer values C8 allows as stated: the literal without a "payer"
\* constraint, else the value of a "payer" constraint of the field
PayersAsStated(field) ==
    IF ~Carries(field, "payer") THEN {"payer"}
    ELSE {Unwrap(field.constraints[k].value) :
            k \in {j \in 1..Len(field.constraints) :
                     /\ field.constraints[j].constraint_type = "payer"
                     /\ IsSome(field.constraints[j].value)}}

\* The payer as amended: the value of the first "payer" constraint, the
\* literal when there is none or the first one has no value
PayerOfFirst(field) ==
    LET ks == {j \in 1..Len(field.constraints) : field.constraints[j].constraint_type = "payer"} IN
    IF ks = {} THEN "payer"
    ELSE LET k == CHOOSE j \in ks : \A i \in ks : j <= i IN
         IF IsSome(field.constraints[k].value) THEN Unwrap(field.constraints[k].value)
         ELSE "payer"

\* One Initialize per "init" field of the resolved struct, in field order,
\* with a payer that Allowed admits
InitializePerInitField(Allowed(_)) ==
    AfterOperations =>
        \A i \in 1..Len(all_instructions(NP)) :
            LET instr == all_instructions(NP)[i] IN
            Resolves(instr) =>
                LET inits == SelectSeq(Operations(instr), IsInitialize)
                    fields == SelectSeq(ResolvedStruct(instr).fields, CarriesInit)
                IN  /\ Len(inits) = Len(fields)
                    /\ \A k \in 1..Len(fields) :
                          /\ inits[k].target = fields[k].name
                          /\ inits[k].payer \in Allowed(fields[k])

\* C8 as stated: every instruction whose reference resolves to a declared
\* struct gets, for each "init" field in declaration order, one
\* Initialize{target = field name, payer = the value of the field's "payer"
\* constraint, or "payer" when the field has no payer constraint}.
C8_PayerOfPayerConstraint == InitializePerInitField(PayersAsStated)

\* What infer_operations_from_account yields instead: the first "payer"
\* constraint decides, and the literal stands in when it has no value.
PayerOfFirstPayerConstraint ==
    InitializePerInitField(LAMBDA field : {PayerOfFirst(field)})

\* C9: an instruction named "transfer" or "send" whose resolved struct has
\* fields named "from" and "to" gets exactly one Transfer{from, to}, after
\* every Initialize; any other instruction gets no Transfer.
C9_TransferForTransferAndSend ==
    AfterOperations =>
        \A i \in 1..Len(all_instructions(NP)) :
            LET instr == all_instructions(NP)[i]
                ops == Operations(instr)
            IN  IF /\ instr.name \in {"transfer", "send"}
                   /\ Resolves(instr)
                   /\ \E f \in 1..Len(ResolvedStruct(instr).fields) :
                         ResolvedStruct(instr).fields[f].name = "from"
                   /\ \E f \in 1..Len(ResolvedStruct(instr).fields) :
                         ResolvedStruct(instr).fields[f].name = "to"
                THEN /\ SelectSeq(ops, IsTransfer) = <<Transfer("from", "to")>>
                     /\ \A j, k \in 1..Len(ops) :
                           IsTransfer(ops[j]) /\ IsInitialize(ops[k]) => k < j
                ELSE SelectSeq(ops, IsTransfer) = <<>>

\* a "send" instruction got an Initialize followed by the Transfer
C9_Witness ==
    /\ AfterOperations
    /\ \E i \in 1..Len(all_instructions(NP)) :
          /\ all_instructions(NP)[i].name = "send"
          /\ Len(Operations(all_instructions(NP)[i])) = 2
          /\ IsInitialize(Operations(all_instructions(NP)[i])[1])
          /\ Operations(all_instructions(NP)[i])[2] = Transfer("from", "to")

InferredMuts(cs) ==
    {k \in 1..Len(cs) : cs[k].constraint_type = "mut" /\ cs[k].is_inferred}

\* C10: after normalize every field that carries "init" also carries "mut" -
\* the explicit one if the source had it, otherwise exactly one appended with
\* is_inferred = true - and a field without "init" has no inferred "mut".
C10_MutInferredFromInit ==
    AfterConstraints =>
        \A a \in 1..Len(program.account_structs) :
            \A f \in 1..Len(program.account_structs[a].fields) :
                LET src == program.account_structs[a].fields[f]
                    cs == NP.account_structs[a].fields[f].constraints
                IN  IF Carries(src, "init")
                    THEN /\ \E k \in 1..Len(cs) : cs[k].constraint_type = "mut"
                         /\ IF Carries(src, "mut")
                            THEN InferredMuts(cs) = {}
                            ELSE /\ Cardinality(InferredMuts(cs)) = 1
                                 /\ \A k \in InferredMuts(cs) :
                                       k > Len(src.constraints) /\ IsNone(cs[k].value)
                    ELSE InferredMuts(cs) = {}

\* a returned field with "init", no explicit "mut" and the inferred one
C10_Witness ==
    /\ ReturnedOk
    /\ \E a \in 1..Len(program.account_structs) :
          \E f \in 1..Len(program.account_structs[a].fields) :
              /\ Carries(program.account_structs[a].fields[f], "init")
              /\ ~Carries(program.account_structs[a].fields[f], "mut")
              /\ Cardinality(InferredMuts(NP.account_structs[a].fields[f].constraints)) = 1

InferredSigners(cs) ==
    {k \in 1..Len(cs) : cs[k].constraint_type = "signer" /\ cs[k].is_inferred}

\* The identifiers of the model's type texts in which "Signer" occurs
MentionsSigner(ty) == Range(ty) \cap {"Signer", "UncheckedSigner"} # {}

\* C11: a field gets an inferred "signer" constraint if and only if its name
\* is "authority", "owner" or "admin", its type text contains "Signer" and
\* the source gave it no "signer" constraint; it then gets exactly one.
C11_SignerInferredFromNameAndType ==
    AfterConstraints =>
        \A a \in 1..Len(program.account_structs) :
            \A f \in 1..Len(program.account_structs[a].fields) :
                LET src == program.account_structs[a].fields[f]
                    cs == NP.account_structs[a].fields[f].constraints
                IN  IF /\ src.name \in {"authority", "owner", "admin"}
                       /\ MentionsSigner(src.ty)
                       /\ ~Carries(src, "signer")
                    THEN /\ Cardinality(InferredSigners(cs)) = 1
                         /\ \A k \in InferredSigners(cs) : IsNone(cs[k].value)
                    ELSE InferredSigners(cs) = {}

\* a returned struct where "authority: Signer" got the inferred constraint
\* and a field of another name with the same type did not
C11_Witness ==
    /\ ReturnedOk
    /\ \E a \in 1..Len(NP.account_structs) :
          \E f, g \in 1..Len(NP.account_structs[a].fields) :
              LET fields == NP.account_structs[a].fields IN
              /\ fields[f].name = "authority"
              /\ fields[f].ty = SignerTy
              /\ InferredSigners(fields[f].constraints) # {}
              /\ fields[g].name = "payer"
              /\ fields[g].ty = SignerTy
              /\ InferredSigners(fields[g].constraints) = {}

\* The names in the order the uniqueness scan meets them
ScannedNames ==
    [a \in 1..Len(program.account_structs) |-> program.account_structs[a].name]
    \o [r \in 1..Len(program.raw_accounts) |-> program.raw_accounts[r].name]

\* The positions of that order whose name an earlier position has
Repeats == {k \in 1..Len(ScannedNames) : \E j \in 1..(k - 1) : ScannedNames[j] = ScannedNames[k]}

IsUniquenessIssue(issue) ==
    /\ issue.severity = "Error"
    /\ issue.message[1] \in {"Duplicate account struct name: ", "Duplicate account name: "}

\* C12: structs and then raw accounts are scanned against one set of names;
\* every repeat yields exactly one Error, worded after its kind, and a first
\* occurrence none, so the Errors number (structs + raw accounts) minus the
\* distinct names.
C12_OneErrorPerRepeatedName ==
    ReturnedOk =>
        LET errors == SelectSeq(Issues, IsUniquenessIssue) IN
        /\ Len(errors) = Cardinality(Repeats)
        /\ Len(errors) = Len(ScannedNames) - Cardinality(Range(ScannedNames))
        /\ \A k \in Repeats :
              LET i == Cardinality({j \in Repeats : j <= k}) IN
              /\ errors[i].element = ScannedNames[k]
              /\ errors[i].message =
                    <<IF k <= Len(program.account_structs)
                      THEN "Duplicate account struct name: "
                      ELSE "Duplicate account name: ",
                      ScannedNames[k]>>

\* a returned program where a struct repeats a struct and a raw account
\* repeats a struct
C12_Witness ==
    /\ ReturnedOk
    /\ \E k \in Repeats : k <= Len(program.account_structs)
    /\ \E k \in Repeats :
          /\ k > Len(program.account_structs)
          /\ \A j \in (Len(program.account_structs) + 1)..(k - 1) :
                ScannedNames[j] # ScannedNames[k]
    /\ Len(SelectSeq(Issues, IsUniquenessIssue)) >= 2

IsReferentialIssue(issue) ==
    /\ issue.severity = "Warning"
    /\ issue.message[1] = "Instruction "

\* The referential issue C13 gives one instruction, as a list of none or one
ReferentialIssueOf(instr) ==
    IF IsSome(instr.account_struct_name)
    THEN IF \E a \in 1..Len(program.account_structs) :
               program.account_structs[a].name = Unwrap(instr.account_struct_name)
         THEN <<>>
         ELSE <<[severity |-> "Warning",
                 message |-> <<"Instruction ", instr.name,
                               " references undefined account struct ",
                               Unwrap(instr.account_struct_name)>>,
                 element |-> instr.name]>>
    ELSE IF \E k \in 1..Len(instr.parameters) : instr.parameters[k].is_context
         THEN <<[severity |-> "Warning",
                 message |-> <<"Instruction ", instr.name,
                               " has Context parameter but no associated account struct">>,
                 element |-> instr.name]>>
         ELSE <<>>

\* C13: each instruction yields at most one referential issue: none when
\* its reference names a declared account struct, one "references undefined
\* account struct" Warning when it names none (raw accounts do not count),
\* one "has Context parameter" Warning when it is unset and a parameter is
\* context-bearing, none when it is unset and no parameter is.
C13_OneReferentialIssuePerInstruction ==
    ReturnedOk =>
        SelectSeq(Issues, IsReferentialIssue)
            = Flatten([i \in 1..Len(all_instructions(NP)) |->
                          ReferentialIssueOf(all_instructions(NP)[i])])

\* a returned program with a reference that only a raw account's name
\* matches and with an unresolved context parameter, both reported
C13_Witness ==
    /\ ReturnedOk
    /\ \E i \in 1..Len(all_instructions(NP)) :
          LET instr == all_instructions(NP)[i] IN
          /\ IsSome(instr.account_struct_name)
          /\ Unwrap(instr.account_struct_name) \notin InputStructNames
          /\ \E r \in 1..Len(program.raw_accounts) :
                program.raw_accounts[r].name = Unwrap(instr.account_struct_name)
    /\ \E i \in 1..Len(Issues) :
          /\ IsReferentialIssue(Issues[i])
          /\ Len(Issues[i].message) = 3
    /\ \E i \in 1..Len(Issues) :
          /\ IsReferentialIssue(Issues[i])
          /\ Len(Issues[i].message) = 4

\* C18: on success the id is "program:" followed by the source path
\* whenever a source path is known, modules or not, and otherwise "program:"
\* followed by the first module's name.
C18_IdFromPathElseFirstModule ==
    ReturnedOk =>
        \/ /\ IsSome(program.source_path)
           /\ NP.id = "program:" \o Str(Unwrap(program.source_path))
        \/ /\ IsNone(program.source_path)
           /\ program.program_modules # <<>>
           /\ NP.id = "program:" \o Head(program.program_modules).name

\* a returned program with two modules and a source path, named after the
\* first module and identified by the path
C18_Witness ==
    /\ ReturnedOk
    /\ Len(program.program_modules) = 2
    /\ program.source_path = Some(<<"m", ".", "r">>)
    /\ NP.id = "program:m.r"
    /\ NP.name = Head(program.program_modules).name

AfterLink == pc \in {"infer_operations", "infer_constraints", "infer_relationships",
                     "validate", "done"}

\* The struct name a parameter of type Context<S> resolves, if it is one
IsContextOf(param, S) == param.is_context /\ param.ty = <<"Context", "<", S, ">">>
ContextNames(param) == {S \in {param.ty[k] : k \in 1..Len(param.ty)} : IsContextOf(param, S)}

\* The reference the first context-bearing parameter gives, none without one
ReferenceOfFirstContext(instr) ==
    LET ks == {k \in 1..Len(instr.parameters) : instr.parameters[k].is_context} IN
    IF ks = {} THEN {}
    ELSE ContextNames(instr.parameters[CHOOSE k \in ks : \A j \in ks : k <= j])

\* C19: for an instruction whose reference the structural copy left unset,
\* linking sets it to the struct name resolved from the first
\* context-bearing parameter; a later context-bearing parameter never
\* determines or replaces it.
C19_FirstContextParameterLinks ==
    AfterLink =>
        \A i \in 1..Len(InputInstructions) :
            IsNone(InputInstructions[i].context_type) =>
                Range(all_instructions(NP)[i].account_struct_name)
                    = ReferenceOfFirstContext(InputInstructions[i])

\* C20: an instruction with no parsed context type and a context-bearing
\* parameter of type Context<S>, S a declared account struct, ends with
\* reference S, gets the operations inferred from S's fields and neither
\* referential warning.
C20_LinkedReferenceIsObserved ==
    ReturnedOk =>
        \A i \in 1..Len(InputInstructions) :
            \A k \in 1..Len(InputInstructions[i].parameters) :
                \A S \in InputStructNames :
                    /\ IsNone(InputInstructions[i].context_type)
                    /\ IsContextOf(InputInstructions[i].parameters[k], S)
                    => LET instr == all_instructions(NP)[i]
                           ops == infer_operations_from_account(
                                      instr, Unwrap(find_account_struct(NP, S)))
                       IN  /\ instr.account_struct_name = Some(S)
                           /\ instr.body = IF ops = <<>> THEN Some(Unknown) ELSE Some(Basic(ops))
                           /\ \A j \in 1..Len(Issues) :
                                 IsReferentialIssue(Issues[j]) => Issues[j].element # instr.name

\* parse_str has returned Ok for the syntax tree in `file`
ParsedOk == IsSome(file) /\ pc \notin {"parse", "rejected"}

\* The account structs of the syntax tree, in order, and their named fields
AccountItems ==
    SelectSeq(Unwrap(file), LAMBDA item : item.kind = "Struct" /\ is_account_struct(item))
NamedFields(structure) == SelectSeq(structure.fields, LAMBDA field : IsSome(field.ident))

CloserOf(c) == IF c = "(" THEN ")" ELSE IF c = "[" THEN "]" ELSE "}"
CountOf(text, lo, hi, c) == Cardinality({m \in lo..hi : text[m] = c})

\* text[i] opens a group that text[j] closes
Encloses(text, i, j) ==
    /\ text[i] \in {"(", "[", "{"}
    /\ text[j] = CloserOf(text[i])
    /\ \A m \in (i + 1)..(j - 1) :
          CountOf(text, i + 1, m, text[i]) >= CountOf(text, i + 1, m, text[j])
    /\ CountOf(text, i + 1, j - 1, text[i]) = CountOf(text, i + 1, j - 1, text[j])

\* The commas of text that lie outside every (...), [...] and {...} group
OuterCommas(text) ==
    {k \in 1..Len(text) :
        /\ text[k] = ","
        /\ ~\E i \in 1..(k - 1) : \E j \in (k + 1)..Len(text) : Encloses(text, i, j)}

\* text cut at exactly those commas: trimmed, the empty segments dropped
SegmentsAtOuterCommas(text) ==
    LET cuts == OuterCommas(text)
        bound(n) == IF n = 0 THEN 0
                    ELSE IF n > Cardinality(cuts) THEN Len(text) + 1
                    ELSE CHOOSE k \in cuts : Cardinality({j \in cuts : j <= k}) = n
        segments == [n \in 1..(Cardinality(cuts) + 1) |->
                        Trim(SubSeq(text, bound(n - 1) + 1, bound(n) - 1))]
    IN  SelectSeq(segments, LAMBDA segment : segment # <<>>)

\* The constraints a field's account attributes stand for under that cut
ConstraintsAtOuterCommas(field) ==
    Flatten([a \in 1..Len(field.attrs) |->
        IF field.attrs[a].path = "account" /\ IsSome(field.attrs[a].args)
        THEN LET segments == SegmentsAtOuterCommas(Unwrap(field.attrs[a].args)) IN
             [k \in 1..Len(segments) |-> constraint_of_segment(segments[k])]
        ELSE <<>>])

\* C14: the attribute's argument text is cut into entries only at commas
\* outside every (...), [...] and {...} group, each segment trimmed, empty
\* segments dropped, order kept.
C14_SplitAtOuterCommas ==
    ParsedOk =>
        \A a \in 1..Len(AccountItems) :
            \A f \in 1..Len(NamedFields(AccountItems[a])) :
                program.account_structs[a].fields[f].constraints
                    = ConstraintsAtOuterCommas(NamedFields(AccountItems[a])[f])

\* The program modules of the syntax tree, in order, and their functions
ProgramItems ==
    SelectSeq(Unwrap(file), LAMBDA item : item.kind = "Mod" /\ is_anchor_program(item))
FunctionsOf(module) ==
    SelectSeq(IF IsSome(module.content) THEN Unwrap(module.content) ELSE <<>>,
              LAMBDA item : item.kind = "Fn")
\* ... those of them the conversion took for instructions
ConvertedFunctions(module) == SelectSeq(FunctionsOf(module), is_anchor_instruction)
TypedInputs(function) == SelectSeq(function.inputs, LAMBDA input : input.kind = "Typed")

\* A type without its leading reference markers
RECURSIVE StripReferences(_)
StripReferences(ty) == IF ty.kind = "Reference" THEN StripReferences(ty.elem) ELSE ty

\* A path type whose final segment is exactly Context
EndsInContext(ty) ==
    /\ ty.kind = "Path"
    /\ ty.segments[Len(ty.segments)].ident = "Context"

\* The name the type argument of such a path's final segment gives, if any
ContextArgument(ty) ==
    LET arguments == ty.segments[Len(ty.segments)].arguments IN
    IF IsSome(arguments) /\ Unwrap(arguments) # <<>>
       /\ Head(Unwrap(arguments)).kind = "Path"
    THEN {Head(Unwrap(arguments)).segments[1].ident}
    ELSE {}

\* The model builder's half of C15: the first context-bearing parameter that
\* resolves a struct name fixes the reference
FirstResolvingParameterFixesReference ==
    ParsedOk =>
        \A m \in 1..Len(ProgramItems) :
            \A i \in 1..Len(ConvertedFunctions(ProgramItems[m])) :
                LET inputs == TypedInputs(ConvertedFunctions(ProgramItems[m])[i])
                    resolving == {k \in 1..Len(inputs) :
                                     /\ get_context_info(inputs[k].ty).is_context
                                     /\ IsSome(get_context_info(inputs[k].ty).context_type)}
                IN  program.program_modules[m].instructions[i].context_type
                        = IF resolving = {} THEN None
                          ELSE get_context_info(
                                   inputs[CHOOSE k \in resolving : \A j \in resolving : k <= j].ty
                               ).context_type

\* The normalizer's half of C15: a reference set at conversion is the same
\* value after linking, inference and validation
ConvertedReferenceIsKept ==
    AfterCopy =>
        \A i \in 1..Len(InputInstructions) :
            IsSome(InputInstructions[i].context_type) =>
                all_instructions(NP)[i].account_struct_name = InputInstructions[i].context_type

\* C15: an instruction's context-struct reference, once set, is never
\* overwritten: in the model builder the first context-bearing parameter
\* that resolves a struct name fixes it, and in the normalizer a reference
\* set at conversion keeps its value through linking, inference, validation.
C15_ReferenceNeverOverwritten ==
    /\ FirstResolvingParameterFixesReference
    /\ ConvertedReferenceIsKept

\* C16: a parameter whose type is Context<T> behind any number of leading
\* & or &mut markers is built context-bearing and resolves T as the
\* instruction's context struct, exactly as the bare Context<T> does; a
\* Context without a type argument is context-bearing and resolves nothing.
C16_ContextBehindReferences ==
    ParsedOk =>
        \A m \in 1..Len(ProgramItems) :
            \A i \in 1..Len(ConvertedFunctions(ProgramItems[m])) :
                LET function == ConvertedFunctions(ProgramItems[m])[i]
                    instruction == program.program_modules[m].instructions[i]
                    bare == convert_instruction(
                                [function EXCEPT !.inputs =
                                    [k \in 1..Len(function.inputs) |->
                                        IF function.inputs[k].kind = "Typed"
                                        THEN [function.inputs[k] EXCEPT
                                                 !.ty = StripReferences(@)]
                                        ELSE function.inputs[k]]])
                IN  /\ instruction.context_type = bare.context_type
                    /\ \A k \in 1..Len(TypedInputs(function)) :
                          /\ instruction.parameters[k].is_context = bare.parameters[k].is_context
                          /\ EndsInContext(StripReferences(TypedInputs(function)[k].ty))
                                => instruction.parameters[k].is_context
                    /\ Len(TypedInputs(function)) = 1
                       /\ EndsInContext(StripReferences(TypedInputs(function)[1].ty))
                          => Range(instruction.context_type)
                                = ContextArgument(StripReferences(TypedInputs(function)[1].ty))

\* is_instruction as C17 states it
HasContextParameter(function) ==
    \E k \in 1..Len(function.inputs) :
        /\ function.inputs[k].kind = "Typed"
        /\ EndsInContext(StripReferences(function.inputs[k].ty))

\* C17: a function is taken for an instruction if and only if some typed
\* parameter's type, reference markers stripped, is a path type whose final
\* segment is exactly Context; Context as a non-final segment, or a final
\* segment that merely contains the text, does not qualify.
C17_InstructionIffFinalSegmentContext ==
    ParsedOk =>
        \A m \in 1..Len(ProgramItems) :
            [i \in 1..Len(program.program_modules[m].instructions) |->
                program.program_modules[m].instructions[i].name]
            = [i \in 1..Len(SelectSeq(FunctionsOf(ProgramItems[m]), HasContextParameter)) |->
                SelectSeq(FunctionsOf(ProgramItems[m]), HasContextParameter)[i].ident]

\* Operation inference has something to report for an instruction: its
\* reference resolves and the struct has an "init" field, or the fields
\* "from" and "to" under the name "transfer"/"send", or a "close" field under
\* the name "close"
HasField(account, fname) == \E f \in 1..Len(account.fields) : account.fields[f].name = fname
YieldsOperations(instr) ==
    /\ Resolves(instr)
    /\ LET account == ResolvedStruct(instr) IN
       \/ \E f \in 1..Len(account.fields) : Carries(account.fields[f], "init")
       \/ /\ instr.name \in {"transfer", "send"}
          /\ HasField(account, "from")
          /\ HasField(account, "to")
       \/ /\ instr.name = "close"
          /\ \E f \in 1..Len(account.fields) : Carries(account.fields[f], "close")

\* C21: after normalize every instruction's body is Unknown or Basic with a
\* non-empty operation list; it is Basic exactly when the reference resolves
\* to a declared struct and operation inference yields an operation; with no
\* reference, a dangling one or an empty result the body stays Unknown.
C21_BodyUnknownOrBasic ==
    ReturnedOk =>
        \A i \in 1..Len(all_instructions(NP)) :
            LET instr == all_instructions(NP)[i] IN
            /\ IsSome(instr.body)
            /\ IF YieldsOperations(instr)
               THEN /\ Unwrap(instr.body).kind = "Basic"
                    /\ Operations(instr) # <<>>
               ELSE instr.body = Some(Unknown)

\* inference ran on an instruction whose reference resolves to a struct with
\* fields that give no operation, and the body is still Unknown
C21_Witness ==
    /\ ReturnedOk
    /\ reruns >= 1
    /\ \E i \in 1..Len(all_instructions(NP)) :
          LET instr == all_instructions(NP)[i] IN
          /\ Resolves(instr)
          /\ Len(ResolvedStruct(instr).fields) = 2
          /\ ~YieldsOperations(instr)
          /\ instr.body = Some(Unknown)

IsClose(op) == op.op = "Close"
CarriesClose(field) == Carries(field, "close")

\* The refund_to C22 states: the value of the field's first "close"
\* constraint, the literal "authority" when that constraint has no value
RefundOfFirst(field) ==
    LET ks == {j \in 1..Len(field.constraints) : field.constraints[j].constraint_type = "close"}
        k == CHOOSE j \in ks : \A i \in ks : j <= i
    IN  IF IsSome(field.constraints[k].value) THEN Unwrap(field.constraints[k].value)
        ELSE "authority"

\* C22: an instruction named exactly "close" whose resolved struct has a
\* field carrying "close" gets exactly one Close; its target is the first
\* such field and its refund_to the value of that field's first "close"
\* constraint, or "authority" when that constraint has no value.  Under any
\* other instruction name no Close is emitted.
C22_CloseForCloseInstruction ==
    AfterOperations =>
        \A i \in 1..Len(all_instructions(NP)) :
            LET instr == all_instructions(NP)[i]
                closes == SelectSeq(Operations(instr), IsClose)
            IN  IF /\ instr.name = "close"
                   /\ Resolves(instr)
                   /\ SelectSeq(ResolvedStruct(instr).fields, CarriesClose) # <<>>
                THEN LET field == SelectSeq(ResolvedStruct(instr).fields, CarriesClose)[1] IN
                     closes = <<Close(field.name, RefundOfFirst(field))>>
                ELSE closes = <<>>

\* a "close" instruction over two fields carrying "close", the first with a
\* value-less constraint before a valued one: one Close, refunding "authority"
C22_Witness ==
    /\ AfterOperations
    /\ \E i \in 1..Len(all_instructions(NP)) :
          LET instr == all_instructions(NP)[i] IN
          /\ instr.name = "close"
          /\ Resolves(instr)
          /\ Len(SelectSeq(ResolvedStruct(instr).fields, CarriesClose)) = 2
          /\ Len(ResolvedStruct(instr).fields[1].constraints) = 2
          /\ IsNone(ResolvedStruct(instr).fields[1].constraints[1].value)
          /\ IsSome(ResolvedStruct(instr).fields[1].constraints[2].value)
          /\ Operations(instr) = <<Close("vault", "authority")>>

\* The fields of `fields` other than the j-th that a "has_one" or
\* "belongs_to" constraint of the j-th names
ReferredBy(fields, j) ==
    {i \in 1..Len(fields) \ {j} :
        \E k \in 1..Len(fields[j].constraints) :
            /\ fields[j].constraints[k].constraint_type \in {"has_one", "belongs_to"}
            /\ fields[j].constraints[k].value = Some(fields[i].name)}
Related(np, a, j) == np.account_structs[a].fields[j].inferred_info.related_account

\* C23: relationship inference sets the related_account of a field j to the
\* name of a distinct field of the same struct that a "has_one" or
\* "belongs_to" constraint of j names; when j names several, the one latest
\* in declaration order (the last the scan over the referenced fields meets)
\* wins; a field whose constraints name only itself or no field is left as
\* it was.
C23_RelationOfLastReferencedField ==
    [][pc = "infer_relationships" =>
          \A a \in 1..Len(NP.account_structs) :
              \A j \in 1..Len(NP.account_structs[a].fields) :
                  LET refs == ReferredBy(NP.account_structs[a].fields, j) IN
                  IF refs = {}
                  THEN Related(NP, a, j)' = Related(NP, a, j)
                  ELSE Related(NP, a, j)' =
                          Some(NP.account_structs[a].fields[
                                   CHOOSE i \in refs : \A h \in refs : h <= i].name)]_vars

\* relationship inference ran on <<to, from, vault>> where "from" names
\* "vault" and then "to", and "vault" names itself
C23_Witness ==
    /\ pc \in {"validate", "done"}
    /\ \E a \in 1..Len(NP.account_structs) :
          LET fields == NP.account_structs[a].fields IN
          /\ Len(fields) = 3
          /\ ReferredBy(fields, 2) = {1, 3}
          /\ fields[2].constraints[1].value = Some(fields[3].name)
          /\ fields[2].constraints[2].value = Some(fields[1].name)
          /\ Related(NP, a, 2) = Some(fields[3].name)
          /\ has_constraint(fields[3], "has_one")
          /\ Related(NP, a, 3) = None

\* C24: for every account-struct field of the normalized program
\* requires_mut is true iff the constraint list contains "mut",
\* requires_signer iff it contains "signer" and is_initialized iff it
\* contains "init", explicit and inferred constraints alike.
C24_FlagsFollowConstraints ==
    AfterCopy =>
        \A f \in 1..Len(AllFields(NP)) :
            LET field == AllFields(NP)[f] IN
            /\ field.inferred_info.requires_mut <=> Carries(field, "mut")
            /\ field.inferred_info.requires_signer <=> Carries(field, "signer")
            /\ field.inferred_info.is_initialized <=> Carries(field, "init")

\* a returned struct with an "init" field whose only "mut" is inferred and a
\* field whose only "signer" is inferred, both flagged, and neither flagged
\* for what it does not carry
C24_Witness ==
    /\ ReturnedOk
    /\ \E f, g \in 1..Len(AllFields(NP)) :
          LET field == AllFields(NP)[f]
              other == AllFields(NP)[g]
          IN  /\ InferredMuts(field.constraints) # {}
              /\ field.inferred_info.requires_mut
              /\ field.inferred_info.is_initialized
              /\ ~field.inferred_info.requires_signer
              /\ InferredSigners(other.constraints) # {}
              /\ other.inferred_info.requires_signer
              /\ ~other.inferred_info.requires_mut
              /\ ~other.inferred_info.is_initialized

\* C25: however often the inference passes have run after the structural
\* copy, a field has at most one inferred "signer" and at most one inferred
\* "mut" constraint, and no inferred constraint of another type or with a
\* value.
C25_AtMostOneInferredEach ==
    AfterCopy =>
        \A f \in 1..Len(AllFields(NP)) :
            LET cs == AllFields(NP)[f].constraints IN
            /\ Cardinality(InferredSigners(cs)) <= 1
            /\ Cardinality(InferredMuts(cs)) <= 1
            /\ \A k \in 1..Len(cs) :
                  cs[k].is_inferred =>
                      /\ cs[k].constraint_type \in {"signer", "mut"}
                      /\ IsNone(cs[k].value)

\* the passes ran as often as the model lets them over a field that got both
\* inferred constraints
C25_Witness ==
    /\ ReturnedOk
    /\ reruns = MaxReInfer
    /\ \E f \in 1..Len(AllFields(NP)) :
          LET cs == AllFields(NP)[f].constraints IN
          /\ Cardinality(InferredSigners(cs)) = 1
          /\ Cardinality(InferredMuts(cs)) = 1

\* The scan an issue comes from, told by the fixed pieces of its message:
\* 1, 2 uniqueness (account structs, raw accounts), 3 referential integrity,
\* 4, 5 field completeness (account-struct fields, raw-account fields),
\* 6 visibility
ScanOf(issue) ==
    IF issue.message[1] = "Duplicate account struct name: " THEN 1
    ELSE IF issue.message[1] = "Duplicate account name: " THEN 2
    ELSE IF issue.message[1] = "Field "
         THEN IF issue.message[3] = " in account " THEN 4 ELSE 5
    ELSE IF issue.message[3] = " has non-public visibility: " THEN 6
    ELSE 3

\* The elements of the issues of one scan, in the order of the list
ElementsOfScan(n) ==
    LET of_scan == SelectSeq(Issues, LAMBDA issue : ScanOf(issue) = n) IN
    [k \in 1..Len(of_scan) |-> of_scan[k].element]

\* The declared items each scan has to report, in declaration order
Indices(s) == [k \in 1..Len(s) |-> k]
RepeatedStructs ==
    LET as == NP.account_structs
        at == SelectSeq(Indices(as), LAMBDA a : \E b \in 1..(a - 1) : as[b].name = as[a].name)
    IN  [k \in 1..Len(at) |-> as[at[k]].name]
RepeatedRawAccounts ==
    LET rs == NP.raw_accounts
        at == SelectSeq(Indices(rs), LAMBDA r :
                  \/ \E b \in 1..(r - 1) : rs[b].name = rs[r].name
                  \/ \E a \in 1..Len(NP.account_structs) :
                        NP.account_structs[a].name = rs[r].name)
    IN  [k \in 1..Len(at) |-> rs[at[k]].name]
UnresolvedInstructions ==
    LET is == SelectSeq(all_instructions(NP), LAMBDA instr :
                  IF IsSome(instr.account_struct_name)
                  THEN \A a \in 1..Len(NP.account_structs) :
                          NP.account_structs[a].name # Unwrap(instr.account_struct_name)
                  ELSE \E p \in 1..Len(instr.parameters) : instr.parameters[p].is_context)
    IN  [k \in 1..Len(is) |-> is[k].name]
UntypedFields(accounts) ==
    Flatten([a \in 1..Len(accounts) |->
        LET fs == SelectSeq(accounts[a].fields, LAMBDA field : field.ty = <<>>) IN
        [k \in 1..Len(fs) |-> accounts[a].name \o "." \o fs[k].name]])
NonPublicInstructions ==
    LET is == SelectSeq(all_instructions(NP), LAMBDA instr : instr.visibility # "pub") IN
    [k \in 1..Len(is) |-> is[k].name]

\* C26: validation_issues lists the uniqueness issues first (account
\* structs, then raw accounts), then the referential-integrity issues (module
\* by module, instruction by instruction), then the field-completeness issues
\* (account-struct fields, then raw-account fields), then the visibility
\* issues, each group in declaration order; no issue of a later scan stands
\* before one of an earlier scan.
C26_IssuesInScanOrder ==
    ReturnedOk =>
        /\ \A i, j \in 1..Len(Issues) : i < j => ScanOf(Issues[i]) <= ScanOf(Issues[j])
        /\ ElementsOfScan(1) = RepeatedStructs
        /\ ElementsOfScan(2) = RepeatedRawAccounts
        /\ ElementsOfScan(3) = UnresolvedInstructions
        /\ ElementsOfScan(4) = UntypedFields(NP.account_structs)
        /\ ElementsOfScan(5) = UntypedFields(NP.raw_accounts)
        /\ ElementsOfScan(6) = NonPublicInstructions

\* a result with issues of the uniqueness scan (both loops), the referential
\* scan, the field scan and the visibility scan, where the module of the
\* non-public instructions is declared before the one of the unresolved
\* instructions
C26_Witness ==
    /\ ReturnedOk
    /\ {1, 2, 3, 5, 6} \subseteq {ScanOf(Issues[i]) : i \in 1..Len(Issues)}
    /\ Len(ElementsOfScan(3)) >= 2
    /\ Len(ElementsOfScan(6)) = 2
    /\ Len(NP.modules) = 2
    /\ \A i \in 1..Len(NP.modules[1].instructions) :
          NP.modules[1].instructions[i].visibility # "pub"
    /\ \A i \in 1..Len(NP.modules[2].instructions) :
          NP.modules[2].instructions[i].visibility = "pub"

\* A normalized program with its issue list left out
WithoutIssues(np) == [np EXCEPT !.validation_issues = <<>>]

\* C27: validate_program always returns Ok and changes nothing in the
\* NormalizedProgram but validation_issues, to which it only appends: id,
\* name, modules, instructions with their references and bodies, account
\* structs, fields, constraints, inferred info and raw accounts are the same
\* before and after it.
C27_ValidationOnlyAppendsIssues ==
    [][pc = "validate" =>
          /\ pc' = "done"
          /\ error' = None
          /\ IsSome(normalized')
          /\ WithoutIssues(NP)' = WithoutIssues(NP)
          /\ Len(Issues') >= Len(Issues)
          /\ SubSeq(Issues', 1, Len(Issues)) = Issues]_vars

\* validation reported on a program with two modules, an inferred body, an
\* unresolved reference, inferred constraints, a related account and raw
\* accounts
C27_Witness ==
    /\ ReturnedOk
    /\ reruns = 0
    /\ Issues # <<>>
    /\ Len(NP.modules) = 2
    /\ NP.raw_accounts # <<>>
    /\ \E i, j \in 1..Len(all_instructions(NP)) :
          /\ Unwrap(all_instructions(NP)[i].body).kind = "Basic"
          /\ IsSome(all_instructions(NP)[j].account_struct_name)
          /\ IsNone(find_account_struct(NP, Unwrap(all_instructions(NP)[j].account_struct_name)))
    /\ \E f, g \in 1..Len(AllFields(NP)) :
          /\ InferredMuts(AllFields(NP)[f].constraints) # {}
          /\ IsSome(AllFields(NP)[g].inferred_info.related_account)

\* The segments the account attributes of a field were cut into, in order
SegmentsOf(field) ==
    Flatten([a \in 1..Len(field.attrs) |->
        IF field.attrs[a].path = "account" /\ IsSome(field.attrs[a].args)
        THEN split_constraints(Unwrap(field.attrs[a].args))
        ELSE <<>>])

\* C28: each segment gives one constraint; with an '=' in the segment the
\* name is the trimmed text before the first '=' and the value the trimmed
\* text after it, further '=' characters included; without one the
\* constraint has no value and its name is the whole segment.
C28_NameValueAtFirstEquals ==
    ParsedOk =>
        \A a \in 1..Len(AccountItems) :
            \A f \in 1..Len(NamedFields(AccountItems[a])) :
                LET segments == SegmentsOf(NamedFields(AccountItems[a])[f])
                    constraints == program.account_structs[a].fields[f].constraints
                IN  /\ Len(constraints) = Len(segments)
                    /\ \A k \in 1..Len(segments) :
                          LET segment == segments[k]
                              equals == {i \in 1..Len(segment) : segment[i] = "="}
                          IN  IF equals = {}
                              THEN /\ constraints[k].constraint_type = Str(Trim(segment))
                                   /\ constraints[k].value = None
                              ELSE \E i \in equals :
                                      /\ \A h \in equals : i <= h
                                      /\ constraints[k].constraint_type
                                            = Str(Trim(SubSeq(segment, 1, i - 1)))
                                      /\ constraints[k].value
                                            = Some(Str(Trim(SubSeq(segment, i + 1, Len(segment)))))

\* "constraint = a == b" was converted: the name is the text before the first
\* '=' and the value keeps the two that follow
C28_Witness ==
    /\ ParsedOk
    /\ \E a \in 1..Len(program.account_structs) :
          \E f \in 1..Len(program.account_structs[a].fields) :
              LET constraints == program.account_structs[a].fields[f].constraints IN
              /\ Len(constraints) = 1
              /\ constraints[1].constraint_type = "constraint"
              /\ constraints[1].value = Some("a == b")

\* The ids generate_program_id can take from the clock
TimestampIds == {"program:" \o ToString(now) : now \in Timestamps}

\* C29: no program under construction or returned carries an id taken from
\* the clock: on an input with neither a source path nor a program module
\* normalize fails with MissingInfo when it derives the name, so id
\* derivation never runs without one of the two.
C29_NoTimestampId ==
    /\ pc = "id" => IsSome(program.source_path) \/ program.program_modules # <<>>
    /\ IsSome(normalized) => NP.id \notin TimestampIds
    /\ IsNone(program.source_path) /\ program.program_modules = <<>> /\ pc # "name" =>
          /\ pc = "failed"
          /\ IsNone(normalized)
          /\ IsSome(error) /\ Unwrap(error).kind = "MissingInfo"

\* normalize was called twice on a program with account structs but neither
\* a source path nor a module, and failed
C29_Witness ==
    /\ ReturnedErr
    /\ call = 2
    /\ IsNone(program.source_path)
    /\ program.program_modules = <<>>
    /\ program.account_structs # <<>>
    /\ Unwrap(error).kind = "MissingInfo"

\* The positions of a field's "payer" constraints that carry a value
ValuedPayers(field) ==
    {k \in 1..Len(field.constraints) :
        /\ field.constraints[k].constraint_type = "payer"
        /\ IsSome(field.constraints[k].value)}

\* C30: after normalize a field's related_account is present only if the
\* field carries a valued "payer" constraint or a "has_one"/"belongs_to"
\* constraint naming another field of its struct; without such a relation it
\* is the value of the field's last valued "payer" constraint, and with one
\* the related field's name stands in its place.
C30_RelatedAccountFromPayerOrRelation ==
    ReturnedOk =>
        \A a \in 1..Len(NP.account_structs) :
            \A j \in 1..Len(NP.account_structs[a].fields) :
                LET fields == NP.account_structs[a].fields
                    refs == ReferredBy(fields, j)
                    payers == ValuedPayers(fields[j])
                IN  /\ IsSome(Related(NP, a, j)) => refs # {} \/ payers # {}
                    /\ refs = {} /\ payers # {} =>
                          Related(NP, a, j)
                              = fields[j].constraints[CHOOSE k \in payers :
                                                          \A h \in payers : h <= k].value
                    /\ refs # {} =>
                          Related(NP, a, j)
                              = Some(fields[CHOOSE i \in refs : \A h \in refs : h <= i].name)

\* a returned struct where one field has two valued "payer" constraints and
\* the value of the second, and another has a valued "payer" constraint and
\* the name of a field its "belongs_to" names
C30_Witness ==
    /\ ReturnedOk
    /\ \E a \in 1..Len(NP.account_structs) :
          \E f, g \in 1..Len(NP.account_structs[a].fields) :
              LET fields == NP.account_structs[a].fields IN
              /\ Cardinality(ValuedPayers(fields[f])) = 2
              /\ ReferredBy(fields, f) = {}
              /\ Related(NP, a, f) = Some("from")
              /\ fields[f].constraints[2].value = Some("to")
              /\ ValuedPayers(fields[g]) # {}
              /\ ReferredBy(fields, g) # {}
              /\ Related(NP, a, g) = Some("to")
              /\ \A k \in ValuedPayers(fields[g]) : fields[g].constraints[k].value # Some("to")

====
